---- MODULE Spec2Model ----
(***************************************************************************)
(* A model of mail_grep: the mail decoding and line-extraction pipeline,   *)
(* the search driver, the hit report and the mailbox classifier.           *)
(*                                                                         *)
(* Text is modelled as a sequence of symbols (one-character strings, or a  *)
(* markup tag taken as one symbol); a byte string is a sequence of byte    *)
(* symbols.  A Python call that may raise is modelled by a result record   *)
(* [ok |-> BOOLEAN, ...] whose ok field is FALSE when it raises.           *)
(***************************************************************************)
EXTENDS Integers, Sequences, FiniteSets, TLC

VARIABLES
    \* ---- EncodedHeader.decode (mail_string_utils.py)
    dec_pc,        \* "off" | "ready" | "done"
    dec_value,     \* the header value handed to decode: a sequence of tokens
    dec_result,    \* what decode returned (or that it raised)
    \* ---- the container reader _read_emlx (mail_message.py, mail_grep.py)
    rd_pc,         \* "off" | "ready" | "done" | "loaded"
    rd_raw,        \* the bytes of the container file
    rd_out,        \* the bytes _read_emlx returned
    rd_data,       \* the bytes _load handed to the message parser
    \* ---- MboxClassifier (mbox_classifier.py)
    cl_pc,         \* "off" | "ready" | "done"
    cl_mbox,       \* the mailbox directory: its name, its parent's name, its Info.plist
    cl_result,     \* what is_excluded returned, and the tier that decided
    \* ---- MailFolder.mail_paths (mail_folder.py)
    fd_pc,         \* "off" | "ready" | "done"
    fd_tree,       \* the directory tree under root_dir: a sequence of nodes
    fd_only_sent,  \* MailFolder._only_sent
    fd_emlxs,      \* the list mail_paths returned (node numbers)
    \* ---- SearchPattern.match_mail (search_pattern.py, mail_message.py)
    mt_pc,         \* "off" | "ready" | "done"
    mt_msg,        \* the message searched
    mt_pattern,    \* the pattern text
    mt_matches,    \* the (parttype, line) pairs match_mail returned
    \* ---- HitReport (hit_report.py)
    rp_pc,         \* "off" | "open" | "sorted"
    rp_lines,      \* HitReport.hit_lines
    rp_before,     \* history: hit_lines as they were when sort() was last called
    \* ---- MailCsvExporter.process_all (mail_grep.py)
    pc,            \* "off" | "enum" | "loop" | "hits" | "done" | "crashed"
    output_path,   \* the suffix of self._output_path (the -o argument)
    files,         \* the message each .emlx file under root_dir holds
    paths,         \* the list mail_paths() returned
    idx,           \* position of the for loop in paths
    mail_id,       \* the counter mail_id
    cur_dt,        \* date_dt of the file being processed
    matches,       \* what is left of match_mail's list for the file being processed
    hit_count,     \* the counter hit_count
    rows,          \* the list rows
    warnings,      \* the warnings logged
    xlsx_out,      \* what _write_xlsx wrote
    csv_out,       \* what _write_csv wrote
    summary,       \* the mail count of the closing log line, -1 before it
    event,         \* history: what the last step was
    started,       \* history: the positions of paths whose processing began
    \* ---- HitReport.store (hit_report.py)
    rp_out,        \* the file of each format: not stored, or its header and rows
    rp_suffix,     \* history: the suffix of the path of the last store
    rp_error,      \* the exception the last store raised, "none" if it returned
    \* ---- MailMessage (mail_message.py)
    ms_pc,         \* "off" | "new" | "built" | "failed"
    ms_msg,        \* the parsed message self._msg
    ms_profile,    \* self._profile
    ms_header,     \* what header_lines() returned
    ms_body,       \* what body_lines() returned
    ms_matches,    \* what extract(pattern) returned
    ms_warnings,   \* the fields named by the warnings logged
    ms_called,     \* history: the methods called on the message
    \* ---- SearchPattern (search_pattern.py)
    pt_pc,         \* "off" | "new" | "compiled" | "searched"
    pt_egrep,      \* self._egrep_pattern
    pt_regex,      \* the text handed to re.compile
    pt_line,       \* the line last searched
    pt_found,      \* whether self._pattern.search found a match in it
    pt_clock,      \* datetime.now(), in seconds
    pt_names,      \* what the calls of unique_name() returned
    \* ---- RawHeaderText.remove_crlf, CsvFieldText.sanitize (mail_string_utils.py)
    tx_pc,         \* "off" | "ready"
    tx_value,      \* the argument: None or a string
    tx_header,     \* remove_crlf(value), once called
    tx_cell        \* sanitize(value), once called

dec_vars == <<dec_pc, dec_value, dec_result>>
rd_vars == <<rd_pc, rd_raw, rd_out, rd_data>>
cl_vars == <<cl_pc, cl_mbox, cl_result>>
fd_vars == <<fd_pc, fd_tree, fd_only_sent, fd_emlxs>>
mt_vars == <<mt_pc, mt_msg, mt_pattern, mt_matches>>
rp_vars == <<rp_pc, rp_lines, rp_before, rp_out, rp_suffix, rp_error>>
ms_vars == <<ms_pc, ms_msg, ms_profile, ms_header, ms_body, ms_matches, ms_warnings,
             ms_called>>
pt_vars == <<pt_pc, pt_egrep, pt_regex, pt_line, pt_found, pt_clock, pt_names>>
tx_vars == <<tx_pc, tx_value, tx_header, tx_cell>>
dr_vars == <<pc, output_path, files, paths, idx, mail_id, cur_dt, matches, hit_count, rows,
             warnings, xlsx_out, csv_out, summary, event, started>>

vars == <<dec_pc, dec_value, dec_result, rd_pc, rd_raw, rd_out, rd_data,
          cl_pc, cl_mbox, cl_result, fd_pc, fd_tree, fd_only_sent, fd_emlxs,
          mt_pc, mt_msg, mt_pattern, mt_matches, rp_pc, rp_lines, rp_before,
          pc, output_path, files, paths, idx, mail_id, cur_dt, matches, hit_count, rows,
          warnings, xlsx_out, csv_out, summary, event, started,
          rp_out, rp_suffix, rp_error,
          ms_pc, ms_msg, ms_profile, ms_header, ms_body, ms_matches, ms_warnings,
          ms_called, pt_pc, pt_egrep, pt_regex, pt_line, pt_found, pt_clock,
          pt_names, tx_pc, tx_value, tx_header, tx_cell>>

----------------------------------------------------------------------------
(* Bounds of the model.                                                    *)

\* longest header value handed to decode, in tokens
MaxTokens == 2
\* longest container file, in bytes
MaxRaw == 4
\* most string leaves in an Info.plist
MaxPlistStrings == 2
\* most files and directories under root_dir
MaxNodes == 3
\* latest modification time of a file
MaxMtime == 2
\* longest text of a message part, in symbols
MaxBody == 3
\* most hit lines in a report
MaxLines == 3
\* latest timestamp of a hit line's date
MaxTs == 2
\* largest mail id of a hit line appended to a report
MaxMailId == 2
\* most .emlx files under root_dir
MaxFiles == 3
\* most literal characters of a pattern before its bracket expression
MaxLits == 1
\* longest line searched with a pattern
MaxLine == 2
\* longest tail of a pattern text a name is made from
MaxTail == 3
\* latest second of the clock
MaxClock == 2
\* most calls of unique_name on one pattern
MaxCalls == 2
\* longest string given to remove_crlf and sanitize
MaxText == 3

----------------------------------------------------------------------------
(* Sequence helpers.                                                       *)

RECURSIVE Concat(_)
\* "".join(seqs): the concatenation of a sequence of sequences
Concat(ss) == IF ss = <<>> THEN <<>> ELSE Head(ss) \o Concat(Tail(ss))

\* all sequences over S of length at most n
SeqsUpTo(S, n) == UNION {[1..k -> S] : k \in 0..n}

\* str.isspace() on one character
IsSpace(c) == c \in {" ", "\n", "\r", "\t"}

RECURSIVE LStrip(_)
LStrip(s) == IF s # <<>> /\ IsSpace(Head(s)) THEN LStrip(Tail(s)) ELSE s

RECURSIVE RStrip(_)
RStrip(s) ==
    IF s # <<>> /\ IsSpace(s[Len(s)]) THEN RStrip(SubSeq(s, 1, Len(s) - 1)) ELSE s

\* str.strip()
Strip(s) == RStrip(LStrip(s))

----------------------------------------------------------------------------
(* mail_string_utils.py: RawHeaderText, CsvFieldText, EncodedHeader.       *)
(*                                                                         *)
(* A header value is a sequence of tokens: a character                     *)
(* [k |-> "ch", c |-> <char>] or an RFC 2047 encoded word                  *)
(* [k |-> "ew", cs |-> <declared charset>, ok |-> <its base64/q payload    *)
(* is well formed>, b |-> <the payload's bytes>].                          *)

Ch(c) == [k |-> "ch", c |-> c]
Ew(cs, ok, b) == [k |-> "ew", cs |-> cs, ok |-> ok, b |-> b]

\* a plain text as a header value
Plain(s) == [i \in DOMAIN s |-> Ch(s[i])]

\* RawHeaderText.remove_crlf: CR deleted, LF replaced by one space
remove_crlf(value) ==
    LET kept == SelectSeq(value, LAMBDA t : ~(t.k = "ch" /\ t.c = "\r"))
    IN  [i \in DOMAIN kept |->
            IF kept[i].k = "ch" /\ kept[i].c = "\n" THEN Ch(" ") ELSE kept[i]]

\* bytes that are ASCII characters
AsciiBytes == {"A", "a", " "}
\* bytes above 0x7F: 0xE9, and the UTF-8 encoding 0xC3 0xA9 of U+00E9
HighBytes == {"xE9", "xC3", "xA9"}

RECURSIVE Utf8Strict(_)
\* bytes.decode("utf-8", errors="strict")
Utf8Strict(bs) ==
    IF bs = <<>> THEN [ok |-> TRUE, val |-> <<>>]
    ELSE IF Head(bs) \in AsciiBytes
         THEN LET r == Utf8Strict(Tail(bs))
              IN  IF r.ok THEN [ok |-> TRUE, val |-> <<Head(bs)>> \o r.val] ELSE r
    ELSE IF Head(bs) = "xC3" /\ Len(bs) >= 2 /\ bs[2] = "xA9"
         THEN LET r == Utf8Strict(SubSeq(bs, 3, Len(bs)))
              IN  IF r.ok THEN [ok |-> TRUE, val |-> <<"e'">> \o r.val] ELSE r
    ELSE [ok |-> FALSE, val |-> <<>>]

\* one byte decoded as Latin-1
Latin1Char(b) ==
    CASE b = "xE9" -> "e'"
      [] b = "xC3" -> "A~"
      [] b = "xA9" -> "(c)"
      [] OTHER -> b

\* bytes.decode("latin1", errors="replace"): every byte is a character
Latin1(bs) == [ok |-> TRUE, val |-> [i \in DOMAIN bs |-> Latin1Char(bs[i])]]

\* bytes.decode(enc, errors="strict") for the charset an encoded word declares
StrictDecode(bs, enc) ==
    CASE enc = "utf-8" -> Utf8Strict(bs)
      [] enc = "ascii" ->
            IF \A i \in DOMAIN bs : bs[i] \in AsciiBytes
            THEN [ok |-> TRUE, val |-> bs] ELSE [ok |-> FALSE, val |-> <<>>]
      [] OTHER -> [ok |-> FALSE, val |-> <<>>]      \* LookupError: unknown charset

\* bytes(word, "raw-unicode-escape") of an unencoded run (email.header.decode_header)
RawUnicodeEscape(s) == [i \in DOMAIN s |-> IF s[i] = "e'" THEN "xE9" ELSE s[i]]

RECURSIVE SplitWords(_, _)
\* ecre.split: the runs of plain characters and the encoded words, in order
SplitWords(toks, cur) ==
    LET flush == IF cur = <<>> THEN <<>> ELSE <<[enc |-> FALSE, text |-> cur]>>
    IN  IF toks = <<>> THEN flush
        ELSE IF Head(toks).k = "ch"
             THEN SplitWords(Tail(toks), Append(cur, Head(toks).c))
             ELSE flush \o <<[enc |-> TRUE, w |-> Head(toks)]>>
                        \o SplitWords(Tail(toks), <<>>)

\* decode_header drops a whitespace-only run between two encoded words
DropSpaces(words) ==
    LET drop(n) == /\ n > 1 /\ n < Len(words)
                   /\ ~words[n].enc /\ words[n - 1].enc /\ words[n + 1].enc
                   /\ \A i \in DOMAIN words[n].text : IsSpace(words[n].text[i])
        keep == {n \in DOMAIN words : ~drop(n)}
        RECURSIVE pick(_)
        pick(n) == IF n > Len(words) THEN <<>>
                   ELSE (IF n \in keep THEN <<words[n]>> ELSE <<>>) \o pick(n + 1)
    IN  pick(1)

\* the (bytes, charset) pair of one word; an unencoded run has no charset
NoCharset == "None"
WordPart(w) ==
    IF w.enc THEN [bytes |-> TRUE, text |-> w.w.b, cs |-> w.w.cs]
    ELSE [bytes |-> TRUE, text |-> RawUnicodeEscape(w.text), cs |-> NoCharset]

RECURSIVE Collapse(_)
\* decode_header joins adjacent words that declare the same charset
Collapse(parts) ==
    IF Len(parts) < 2 THEN parts
    ELSE IF parts[1].cs = parts[2].cs
         THEN Collapse(<<[parts[1] EXCEPT !.text = @ \o parts[2].text]>>
                       \o SubSeq(parts, 3, Len(parts)))
         ELSE <<parts[1]>> \o Collapse(Tail(parts))

\* email.header.decode_header(cleaned): raises on a malformed base64 payload
decode_header(cleaned) ==
    IF \A i \in DOMAIN cleaned : cleaned[i].k = "ch"
    THEN [ok |-> TRUE,
          parts |-> <<[bytes |-> FALSE,
                       text |-> [i \in DOMAIN cleaned |-> cleaned[i].c],
                       cs |-> NoCharset]>>]
    ELSE LET lead == CHOOSE n \in 0..Len(cleaned) :
                        /\ \A i \in 1..n : cleaned[i].k = "ch" /\ IsSpace(cleaned[i].c)
                        /\ n < Len(cleaned) =>
                             ~(cleaned[n + 1].k = "ch" /\ IsSpace(cleaned[n + 1].c))
             words == DropSpaces(SplitWords(SubSeq(cleaned, lead + 1, Len(cleaned)), <<>>))
         IN  IF \E i \in DOMAIN words : words[i].enc /\ ~words[i].w.ok
             THEN [ok |-> FALSE, parts |-> <<>>]
             ELSE [ok |-> TRUE,
                   parts |-> Collapse([i \in DOMAIN words |-> WordPart(words[i])])]

\* a fallback that gives up after strict UTF-8 and returns the empty string
fallback_no_latin1(text, status) ==
    LET u == Utf8Strict(text)
    IN  [raised |-> FALSE, val |-> IF u.ok THEN u.val ELSE <<>>, log |-> <<>>]

\* EncodedHeader._fallback: strict UTF-8, then Latin-1 with replacement, then
\* repr(text) with two warnings
_fallback(text, status) ==
    LET u == Utf8Strict(text)
        l == Latin1(text)
    IN  IF u.ok THEN [raised |-> FALSE, val |-> u.val, log |-> <<>>]
        ELSE IF l.ok THEN [raised |-> FALSE, val |-> l.val, log |-> <<>>]
        ELSE [raised |-> FALSE, val |-> <<"b'">> \o text \o <<"'">>,
              log |-> <<status, "could not decode">>]

\* one fragment of decode's loop: the appended text and the warnings logged;
\* the strict decode with the declared charset runs inside try/except Exception
DecodePart(p) ==
    IF p.bytes
    THEN IF p.cs \notin {NoCharset, ""} /\ StrictDecode(p.text, p.cs).ok
         THEN [raised |-> FALSE, val |-> StrictDecode(p.text, p.cs).val, log |-> <<>>]
         ELSE _fallback(p.text,
                        IF p.cs \in {NoCharset, ""} THEN "noErr" ELSE "decode failed")
    ELSE [raised |-> FALSE, val |-> p.text, log |-> <<>>]

\* EncodedHeader.decode: [raised, val, log]
decode(value) ==
    LET cleaned == remove_crlf(value)
        dh == decode_header(cleaned)
        outs == [i \in DOMAIN dh.parts |-> DecodePart(dh.parts[i])]
    IN  IF ~dh.ok THEN [raised |-> FALSE, val |-> <<>>, log |-> <<>>]
        ELSE IF \E i \in DOMAIN outs : outs[i].raised
        THEN [raised |-> TRUE, val |-> <<>>, log |-> <<>>]
        ELSE [raised |-> FALSE,
              val |-> Concat([i \in DOMAIN outs |-> outs[i].val]),
              log |-> Concat([i \in DOMAIN outs |-> outs[i].log])]

----------------------------------------------------------------------------
(* The container reader: MailMessage._read_emlx, MailCsvExporter._read_emlx.*)

\* bytes for which bytes.isdigit() is true
DigitBytes == {"3", "7"}
LF == "\n"

\* bytes.find(b): the 0-based index of the first b, or -1
Find(raw, b) ==
    IF \E i \in DOMAIN raw : raw[i] = b
    THEN (CHOOSE i \in DOMAIN raw : raw[i] = b /\ \A j \in 1..(i - 1) : raw[j] # b) - 1
    ELSE -1

\* raw[k:] for a 0-based k >= 0
SliceFrom(raw, k) == SubSeq(raw, k + 1, Len(raw))

\* raw[0:1].isdigit()
StartsWithDigit(raw) == raw # <<>> /\ raw[1] \in DigitBytes

\* a reader that drops the first line whatever the first byte is
read_emlx_no_digit_test(raw) == SliceFrom(raw, Find(raw, LF) + 1)

\* _read_emlx: raw[raw.find(b"\n") + 1:] if raw[0:1].isdigit() else raw
_read_emlx(raw) ==
    IF StartsWithDigit(raw) THEN SliceFrom(raw, Find(raw, LF) + 1) ELSE raw

\* _load / parse_message, step 1: the bytes given to BytesParser.parsebytes;
\* a first line is dropped when the bytes begin with a digit and hold an LF
parsed_data(raw_bytes) ==
    IF StartsWithDigit(raw_bytes) /\ Find(raw_bytes, LF) # -1
    THEN SliceFrom(raw_bytes, Find(raw_bytes, LF) + 1)
    ELSE raw_bytes

----------------------------------------------------------------------------
(* mbox_classifier.py: MboxClassifier.                                     *)
(*                                                                         *)
(* A name or metadata string is a sequence of characters; ".mbox" is one   *)
(* symbol.  An Info.plist is [exists, ok, leaves]: whether the file        *)
(* exists, whether plistlib can parse it, and its leaf values in walk      *)
(* order, each [t |-> "str", v |-> <string>] or [t |-> "num", v |-> <<>>]. *)

\* EXCLUDE_TOKENS: the tokens written in ASCII (the model's alphabet)
EXCLUDE_TOKENS ==
    {<<"d", "r", "a", "f", "t">>,
     <<"d", "r", "a", "f", "t", "s">>,
     <<"b", "r", "o", "u", "i", "l", "l", "o", "n">>,
     <<"b", "o", "z", "z", "a">>,
     <<"e", "n", "t", "w", "u", "r", "f">>,
     <<"b", "o", "r", "r", "a", "d", "o", "r">>,
     <<"r", "a", "s", "c", "u", "n", "h", "o">>,
     <<"t", "r", "a", "s", "h">>,
     <<"d", "e", "l", "e", "t", "e", "d">>,
     <<"b", "i", "n">>,
     <<"c", "o", "r", "b", "e", "i", "l", "l", "e">>,
     <<"p", "a", "p", "i", "e", "r", "k", "o", "r", "b">>,
     <<"p", "a", "p", "e", "l", "e", "r", "a">>,
     <<"c", "e", "s", "t", "i", "n", "o">>,
     <<"j", "u", "n", "k">>,
     <<"s", "p", "a", "m">>,
     <<"i", "n", "d", "e", "s", "i", "r", "a", "b", "l", "e">>,
     <<"o", "u", "t", "b", "o", "x">>,
     <<"p", "o", "s", "t", "e", "a", "u", "s", "g", "a", "n", "g">>,
     <<"a", "r", "c", "h", "i", "v", "e">>,
     <<"a", "r", "c", "h", "i", "v", "o">>,
     <<"a", "r", "c", "h", "i", "v", "i", "o">>,
     <<"a", "r", "c", "h", "i", "v">>,
     <<"r", "s", "s">>,
     <<"n", "o", "t", "e", "s">>,
     <<"t", "a", "s", "k", "s">>,
     <<"j", "o", "u", "r", "n", "a", "l">>,
     <<"r", "e", "c", "o", "v", "e", "r", "e", "d">>}

\* SENT_TOKENS: the tokens written in ASCII
SENT_TOKENS ==
    {<<"s", "e", "n", "t">>,
     <<"g", "e", "s", "e", "n", "d", "e", "t">>,
     <<"i", "n", "v", "i", "a", "t", "i">>,
     <<"e", "n", "v", "i", "a", "d", "o", "s">>,
     <<"e", "n", "v", "o", "y", "e", "s">>}

\* SPECIAL_ATTR_TOKENS: each begins with a backslash
SPECIAL_ATTR_TOKENS ==
    {<<"\\", "d", "r", "a", "f", "t", "s">>,
     <<"\\", "j", "u", "n", "k">>,
     <<"\\", "t", "r", "a", "s", "h">>,
     <<"\\", "d", "e", "l", "e", "t", "e", "d">>,
     <<"\\", "b", "i", "n">>,
     <<"\\", "s", "p", "a", "m">>,
     <<"\\", "o", "u", "t", "b", "o", "x">>,
     <<"\\", "a", "r", "c", "h", "i", "v", "e">>}

UpperCase == <<"A", "B", "C", "D", "E", "F", "G", "H", "I", "J", "K", "L", "M",
               "N", "O", "P", "Q", "R", "S", "T", "U", "V", "W", "X", "Y", "Z">>
LowerCase == <<"a", "b", "c", "d", "e", "f", "g", "h", "i", "j", "k", "l", "m",
               "n", "o", "p", "q", "r", "s", "t", "u", "v", "w", "x", "y", "z">>
Digits == {"0", "1", "2", "3", "4", "5", "6", "7", "8", "9"}

\* unicodedata.normalize("NFKC", c): a fullwidth letter becomes the ASCII letter
\* and the ideographic space the ASCII space
NFKC(c) ==
    IF c = "FULLWIDTH_S" THEN "S"
    ELSE IF c = "IDEOGRAPHIC_SPACE" THEN " "
    ELSE c

\* str.lower() on one character
Lower(c) ==
    IF \E i \in DOMAIN UpperCase : UpperCase[i] = c
    THEN LowerCase[CHOOSE i \in DOMAIN UpperCase : UpperCase[i] = c]
    ELSE c

\* a character the pattern [\s\W_]+ does not remove: a letter or a digit
IsWordChar(c) == (\E i \in DOMAIN LowerCase : LowerCase[i] = c) \/ c \in Digits

\* a normalization that keeps the backslash and the other punctuation
norm_keep_punct(s) == [i \in DOMAIN s |-> Lower(NFKC(s[i]))]

\* MboxClassifier._norm: NFKC, lower-case, then every run of whitespace,
\* non-word characters and underscores deleted
_norm(s) ==
    SelectSeq([i \in DOMAIN s |-> Lower(NFKC(s[i]))], IsWordChar)

\* tok in ns (substring test)
Contains(ns, tok) ==
    \E i \in 1..(Len(ns) - Len(tok) + 1) : SubSeq(ns, i, i + Len(tok) - 1) = tok

\* MboxClassifier._strings_from_plist: [] when the file cannot be parsed,
\* else every string leaf in walk order
_strings_from_plist(info) ==
    IF ~info.ok THEN <<>>
    ELSE LET strs == SelectSeq(info.leaves, LAMBDA l : l.t = "str")
         IN  [i \in DOMAIN strs |-> strs[i].v]

\* MboxClassifier._hit(tokens, seq)
_hit(tokens, cands) ==
    \E i \in DOMAIN cands : \E tok \in tokens : Contains(_norm(cands[i]), tok)

\* mbox_dir.name.replace(".mbox", "")
Stem(name) == SelectSeq(name, LAMBDA c : c # ".mbox")

\* an is_excluded that consults only the special-attribute tier of the metadata
is_excluded_special_only(mbox) ==
    IF mbox.info.exists /\ _hit(SPECIAL_ATTR_TOKENS, _strings_from_plist(mbox.info))
    THEN [result |-> TRUE, tier |-> "special"]
    ELSE [result |-> _hit(EXCLUDE_TOKENS, <<Stem(mbox.name), mbox.parent>>),
          tier |-> "names"]

\* MboxClassifier.is_excluded: the value returned and the tier that returned it
is_excluded(mbox) ==
    LET strs == _strings_from_plist(mbox.info)
    IN  IF mbox.info.exists /\ _hit(SPECIAL_ATTR_TOKENS, strs)
        THEN [result |-> TRUE, tier |-> "special"]
        ELSE IF mbox.info.exists /\ _hit(EXCLUDE_TOKENS, strs)
        THEN [result |-> TRUE, tier |-> "exclude"]
        ELSE [result |-> _hit(EXCLUDE_TOKENS, <<Stem(mbox.name), mbox.parent>>),
              tier |-> "names"]

\* MboxClassifier.is_sent
is_sent(mbox) ==
    LET strs == _strings_from_plist(mbox.info)
    IN  IF mbox.info.exists /\ _hit({<<"\\", "s", "e", "n", "t">>}, strs)
        THEN [result |-> TRUE, tier |-> "special"]
        ELSE IF mbox.info.exists /\ _hit(SENT_TOKENS, strs)
        THEN [result |-> TRUE, tier |-> "sent"]
        ELSE [result |-> _hit(SENT_TOKENS, <<Stem(mbox.name), mbox.parent>>),
              tier |-> "names"]

\* no Info.plist in the mailbox directory
NoInfo == [exists |-> FALSE, ok |-> FALSE, leaves |-> <<>>]

----------------------------------------------------------------------------
(* mail_folder.py: MailFolder.mail_paths.                                  *)
(*                                                                         *)
(* The tree under root_dir is a sequence of nodes; node n is               *)
(* [kind, parent, name, info, mtime] with kind "mbox" (a directory named   *)
(* *.mbox), "dir" (another directory) or "emlx" (a file named *.emlx), and *)
(* parent the number of the directory holding it (0 is root_dir).  A       *)
(* directory listing is taken in node order.                               *)

RootName == <<"V", "1", "0">>

RECURSIVE IsUnder(_, _, _)
\* node n lies somewhere below directory d
IsUnder(tree, n, d) ==
    /\ n # 0
    /\ \/ tree[n].parent = d
       \/ IsUnder(tree, tree[n].parent, d)

\* d.rglob(pattern): the nodes of one kind below d, in listing order
RGlob(tree, d, kind) ==
    LET RECURSIVE from(_)
        from(n) == IF n > Len(tree) THEN <<>>
                   ELSE (IF tree[n].kind = kind /\ IsUnder(tree, n, d)
                         THEN <<n>> ELSE <<>>) \o from(n + 1)
    IN  from(1)

\* the Path of a mailbox as the classifier sees it
MboxOf(tree, n) ==
    [name |-> tree[n].name,
     parent |-> IF tree[n].parent = 0 THEN RootName ELSE tree[tree[n].parent].name,
     info |-> tree[n].info]

RECURSIVE InsertByMtime(_, _, _)
\* one step of the stable sort: p goes behind every entry at least as recent
InsertByMtime(tree, sorted, p) ==
    IF sorted = <<>> THEN <<p>>
    ELSE IF tree[Head(sorted)].mtime >= tree[p].mtime
         THEN <<Head(sorted)>> \o InsertByMtime(tree, Tail(sorted), p)
         ELSE <<p>> \o sorted

RECURSIVE SortByMtime(_, _)
\* sorted(emlxs, key=lambda p: p.stat().st_mtime, reverse=True)
SortByMtime(tree, emlxs) ==
    IF emlxs = <<>> THEN <<>>
    ELSE InsertByMtime(tree, SortByMtime(tree, SubSeq(emlxs, 1, Len(emlxs) - 1)),
                       emlxs[Len(emlxs)])

\* the loop of mail_paths over root_dir.rglob("*.mbox")
Collect(tree, only_sent) ==
    LET mboxes == RGlob(tree, 0, "mbox")
        skip(m) == IF only_sent THEN ~is_sent(MboxOf(tree, m)).result
                   ELSE is_excluded(MboxOf(tree, m)).result
    IN  Concat([i \in DOMAIN mboxes |->
                  IF skip(mboxes[i]) THEN <<>> ELSE RGlob(tree, mboxes[i], "emlx")])

\* MailFolder.mail_paths
mail_paths(tree, only_sent) == SortByMtime(tree, Collect(tree, only_sent))

----------------------------------------------------------------------------
(* mail_message.py (and MailTextDecoder in mail_grep.py): the lines of a   *)
(* message; search_pattern.py: the search.                                 *)
(*                                                                         *)
(* A message is [fault, headers, parts]: headers maps each of Subject,     *)
(* From, To, Date to [present |-> FALSE] or [present |-> TRUE, v |-> <the  *)
(* raw header value>]; parts is the sequence of its text parts, each       *)
(* [ctype, text] with text the payload as decoded with the part's charset. *)
(* In markup "<p>" stands for any tag of a content element, "<script>" and *)
(* "</script>" for the tags of an element body_lines removes.              *)

Absent == [present |-> FALSE]
Present(v) == [present |-> TRUE, v |-> v]

\* a field the header registry fails on: the file holds the raw text v, and
\* self._msg.get(k) raises (IndexError for "From: <", OverflowError for a Date
\* with an oversized zone, ...) each time it is called
Broken(v) == [present |-> TRUE, v |-> v, raises |-> TRUE]
GetRaises(h) == h.present /\ "raises" \in DOMAIN h

HeaderFields == <<"Subject", "From", "To", "Date">>

\* the field name as text
FieldText(k) ==
    CASE k = "Subject" -> <<"S", "u", "b", "j", "e", "c", "t">>
      [] k = "From" -> <<"F", "r", "o", "m">>
      [] k = "To" -> <<"T", "o">>
      [] k = "Date" -> <<"D", "a", "t", "e">>

\* AnyText.to_str on what msg.get(k) returned: None gives ""
to_str(h) == IF h.present THEN h.v ELSE <<>>

\* the replace("\r", "").replace("\n", " ") applied to a decoded header
StripBreaks(s) ==
    LET kept == SelectSeq(s, LAMBDA c : c # "\r")
    IN  [i \in DOMAIN kept |-> IF kept[i] = "\n" THEN " " ELSE kept[i]]

\* the try body of header_lines raises for field k
FieldRaises(msg, k) ==
    GetRaises(msg.headers[k]) \/ decode(to_str(msg.headers[k])).raised

\* MailMessage.header_lines: to_str never returns None, so the test
\* "if v is None: continue" never skips a field
header_lines(msg) ==
    [i \in DOMAIN HeaderFields |->
        LET k == HeaderFields[i]
        IN  IF FieldRaises(msg, k)
            THEN FieldText(k) \o <<":", " ", "[INVALID HEADER]">>
            ELSE FieldText(k) \o <<":", " ">>
                 \o StripBreaks(decode(to_str(msg.headers[k])).val)]

\* the fields named by the warnings header_lines logs
header_warnings(msg) == SelectSeq(HeaderFields, LAMBDA k : FieldRaises(msg, k))

\* the tags of the markup
Tags == {"<p>", "<script>", "</script>"}

RECURSIVE Decompose(_, _)
\* tag.decompose() for the removed elements: the element's tags and content go
Decompose(html, inside) ==
    IF html = <<>> THEN <<>>
    ELSE IF Head(html) = "<script>" THEN Decompose(Tail(html), TRUE)
    ELSE IF Head(html) = "</script>" THEN Decompose(Tail(html), FALSE)
    ELSE IF inside THEN Decompose(Tail(html), TRUE)
    ELSE <<Head(html)>> \o Decompose(Tail(html), FALSE)

RECURSIVE SplitOn(_, _, _)
\* the runs of s between separators, empty runs included
SplitOn(s, seps, cur) ==
    IF s = <<>> THEN <<cur>>
    ELSE IF Head(s) \in seps THEN <<cur>> \o SplitOn(Tail(s), seps, <<>>)
    ELSE SplitOn(Tail(s), seps, Append(cur, Head(s)))

\* soup.stripped_strings: every text node stripped, the empty ones left out
stripped_strings(html) ==
    LET nodes == SplitOn(Decompose(html, FALSE), Tags, <<>>)
        strs == [i \in DOMAIN nodes |-> Strip(nodes[i])]
    IN  SelectSeq(strs, LAMBDA t : t # <<>>)

\* text.splitlines() followed by "if line.strip()"
NonBlankLines(text) ==
    SelectSeq(SplitOn(text, {"\n"}, <<>>), LAMBDA l : Strip(l) # <<>>)

Entry(line, parttype) == [line |-> line, parttype |-> parttype]

\* the entries of a part without the concatenated view
PartLines_no_concat(part) ==
    IF part.text = <<>> THEN <<>>
    ELSE IF part.ctype = "text/html"
    THEN LET strs == stripped_strings(part.text)
             text_only == Concat([i \in DOMAIN strs |-> NonBlankLines(strs[i])])
         IN  <<Entry(part.text, "text/html")>>
             \o [i \in DOMAIN text_only |-> Entry(text_only[i], "text/html_textonly")]
    ELSE LET lines == NonBlankLines(part.text)
         IN  [i \in DOMAIN lines |-> Entry(lines[i], part.ctype)]

\* the entries body_lines appends for one part
PartLines(part) ==
    IF part.text = <<>> THEN <<>>
    ELSE IF part.ctype = "text/html"
    THEN LET strs == stripped_strings(part.text)
             \* get_text(separator="\n", strip=True).splitlines()
             text_only == Concat([i \in DOMAIN strs |-> NonBlankLines(strs[i])])
             concat == Concat(strs)
         IN  <<Entry(part.text, "text/html")>>
             \o [i \in DOMAIN text_only |-> Entry(text_only[i], "text/html_textonly")]
             \o (IF concat # <<>> THEN <<Entry(concat, "text/html_concat")>> ELSE <<>>)
    ELSE LET lines == NonBlankLines(part.text)
         IN  [i \in DOMAIN lines |-> Entry(lines[i], part.ctype)]

\* MailMessage.body_lines
body_lines(msg) == Concat([i \in DOMAIN msg.parts |-> PartLines(msg.parts[i])])

\* self._pattern.search(line) for a pattern that is a literal text
check_line(pattern, line) == Contains(line, pattern)

\* the part types whose lines are searched
SearchedPartTypes == {"text/plain", "text/html_textonly"}

\* a match_mail that searches every entry of body_lines
match_mail_every_view(msg, pattern) ==
    LET hl == header_lines(msg)
        bl == body_lines(msg)
    IN  [i \in DOMAIN SelectSeq(hl, LAMBDA l : check_line(pattern, l)) |->
            Entry(SelectSeq(hl, LAMBDA l : check_line(pattern, l))[i], "header")]
        \o SelectSeq(bl, LAMBDA e : check_line(pattern, e.line))

\* SearchPattern.match_mail (MailMessage.extract): the (parttype, line) pairs
match_mail(msg, pattern) ==
    LET hl == SelectSeq(header_lines(msg), LAMBDA l : check_line(pattern, l))
        bl == SelectSeq(body_lines(msg),
                        LAMBDA e : /\ e.parttype \in SearchedPartTypes
                                   /\ check_line(pattern, e.line))
    IN  [i \in DOMAIN hl |-> Entry(hl[i], "header")] \o bl

----------------------------------------------------------------------------
(* search_pattern.py: SearchPattern.__init__, _egrep_to_python_regex,      *)
(* unique_name.                                                            *)
(*                                                                         *)
(* A pattern text is a sequence of symbols: a character, or a whole POSIX  *)
(* class expression such as "[[:digit:]]".  A compiled pattern is a        *)
(* sequence of character sets, one per character it consumes.              *)

ClassNames == {"digit", "space", "alnum", "alpha", "lower", "upper", "punct",
               "blank", "xdigit", "cntrl", "print", "graph"}

\* the POSIX class expression of a name, as it is written in a pattern
ClassExpr(name) ==
    CASE name = "digit" -> "[[:digit:]]" [] name = "space" -> "[[:space:]]"
      [] name = "alnum" -> "[[:alnum:]]" [] name = "alpha" -> "[[:alpha:]]"
      [] name = "lower" -> "[[:lower:]]" [] name = "upper" -> "[[:upper:]]"
      [] name = "punct" -> "[[:punct:]]" [] name = "blank" -> "[[:blank:]]"
      [] name = "xdigit" -> "[[:xdigit:]]" [] name = "cntrl" -> "[[:cntrl:]]"
      [] name = "print" -> "[[:print:]]" [] name = "graph" -> "[[:graph:]]"

\* the replacement value of punct: the ASCII punctuation marks (the source
\* escapes the quote, the hyphen, the brackets and the backslash among them)
PunctValue == "[!#$%&()*+,-./:;<=>?@[]^_{|}~]"

\* posix_map, key and value as they are written in the source
posix_map ==
    <<[key |-> "\\[[:digit:]\\]", val |-> "\\d"],
      [key |-> "\\[[:space:]\\]", val |-> "\\s"],
      [key |-> "\\[[:alnum:]\\]", val |-> "[A-Za-z0-9]"],
      [key |-> "\\[[:alpha:]\\]", val |-> "[A-Za-z]"],
      [key |-> "\\[[:lower:]\\]", val |-> "[a-z]"],
      [key |-> "\\[[:upper:]\\]", val |-> "[A-Z]"],
      [key |-> "\\[[:punct:]\\]", val |-> PunctValue],
      [key |-> "$begin:math:display$[:blank:]$end:math:display$", val |-> "[ \\t]"],
      [key |-> "$begin:math:display$[:xdigit:]$end:math:display$", val |-> "[A-Fa-f0-9]"],
      [key |-> "$begin:math:display$[:cntrl:]$end:math:display$", val |-> "[\\x00-\\x1F\\x7F]"],
      [key |-> "$begin:math:display$[:print:]$end:math:display$", val |-> "[ -~]"],
      [key |-> "$begin:math:display$[:graph:]$end:math:display$", val |-> "[!-~]"]>>

\* a bracket expression with one character, as it is written in a pattern,
\* and its character
BracketSyms == <<"[a]", "[d]", "[G]">>
BracketChars == <<"a", "d", "G">>
IsBracket(sym) == \E b \in DOMAIN BracketSyms : BracketSyms[b] = sym
BracketChar(sym) == BracketChars[CHOOSE b \in DOMAIN BracketSyms : BracketSyms[b] = sym]

\* the letters of a class name
NameLetters(name) ==
    CASE name = "digit" -> {"d", "i", "g", "t"}
      [] name = "space" -> {"s", "p", "a", "c", "e"}
      [] name = "alnum" -> {"a", "l", "n", "u", "m"}
      [] name = "alpha" -> {"a", "l", "p", "h"}
      [] name = "lower" -> {"l", "o", "w", "e", "r"}
      [] name = "upper" -> {"u", "p", "e", "r"}
      [] name = "punct" -> {"p", "u", "n", "c", "t"}
      [] name = "blank" -> {"b", "l", "a", "n", "k"}
      [] name = "xdigit" -> {"x", "d", "i", "g", "t"}
      [] name = "cntrl" -> {"c", "n", "t", "r", "l"}
      [] name = "print" -> {"p", "r", "i", "n", "t"}
      [] name = "graph" -> {"g", "r", "a", "p", "h"}

\* the class name written inside a key of the form \[[:name:]\]
KeyName(key) ==
    CASE key = "\\[[:digit:]\\]" -> "digit"
      [] key = "\\[[:space:]\\]" -> "space"
      [] key = "\\[[:alnum:]\\]" -> "alnum"
      [] key = "\\[[:alpha:]\\]" -> "alpha"
      [] key = "\\[[:lower:]\\]" -> "lower"
      [] key = "\\[[:upper:]\\]" -> "upper"
      [] key = "\\[[:punct:]\\]" -> "punct"
      [] OTHER -> "none"

\* the key, read by re.sub as a regular expression, matches the symbol: the key
\* \[[:name:]\] is "[", one character of the set ":name:", "]", so it matches
\* a one-character bracket expression and not the class expression; a key that
\* begins with "$" asks for text after the end of the string and matches nothing
KeyMatches(key, sym) ==
    /\ KeyName(key) # "none"
    /\ IsBracket(sym)
    /\ BracketChar(sym) \in NameLetters(KeyName(key)) \cup {":"}

\* SearchPattern._egrep_to_python_regex: the keys are tried in the order of
\* posix_map; no replacement value is matched by a later key
_egrep_to_python_regex(pattern) ==
    [i \in DOMAIN pattern |->
        LET hits == {e \in DOMAIN posix_map : KeyMatches(posix_map[e].key, pattern[i])}
        IN  IF hits # {}
            THEN posix_map[CHOOSE e \in hits : \A f \in hits : e <= f].val
            ELSE pattern[i]]

\* the characters of the lines searched: a digit, a space, a lower-case and an
\* upper-case letter, two punctuation marks, a control character
LineChars == {"7", " ", "a", "G", "!", "]", "ESC"}

\* the characters of LineChars in each POSIX class
PosixClass(name) ==
    CASE name = "digit" -> {"7"}
      [] name = "space" -> {" "}
      [] name = "alnum" -> {"7", "a", "G"}
      [] name = "alpha" -> {"a", "G"}
      [] name = "lower" -> {"a"}
      [] name = "upper" -> {"G"}
      [] name = "punct" -> {"!", "]"}
      [] name = "blank" -> {" "}
      [] name = "xdigit" -> {"7", "a"}
      [] name = "cntrl" -> {"ESC"}
      [] name = "print" -> {"7", " ", "a", "G", "!", "]"}
      [] name = "graph" -> {"7", "a", "G", "!", "]"}

\* re.compile on one symbol of the converted text: a replacement value is the
\* character class it denotes; a class expression left in the text reads as
\* the set "[:name:" followed by the character "]"; a character is itself
Compiled(sym) ==
    CASE sym = "\\d" -> <<PosixClass("digit")>>
      [] sym = "\\s" -> <<PosixClass("space")>>
      [] sym = "[A-Za-z0-9]" -> <<PosixClass("alnum")>>
      [] sym = "[A-Za-z]" -> <<PosixClass("alpha")>>
      [] sym = "[a-z]" -> <<PosixClass("lower")>>
      [] sym = "[A-Z]" -> <<PosixClass("upper")>>
      [] sym = PunctValue -> <<PosixClass("punct")>>
      [] sym = "[ \\t]" -> <<PosixClass("blank")>>
      [] sym = "[A-Fa-f0-9]" -> <<PosixClass("xdigit")>>
      [] sym = "[\\x00-\\x1F\\x7F]" -> <<PosixClass("cntrl")>>
      [] sym = "[ -~]" -> <<PosixClass("print")>>
      [] sym = "[!-~]" -> <<PosixClass("graph")>>
      [] \E n \in ClassNames : sym = ClassExpr(n) ->
            <<NameLetters(CHOOSE n \in ClassNames : sym = ClassExpr(n)) \cup {"[", ":"},
              {"]"}>>
      [] IsBracket(sym) -> <<{BracketChar(sym)}>>
      [] OTHER -> <<{sym}>>

\* re.compile(python_pattern)
re_compile(text) == Concat([i \in DOMAIN text |-> Compiled(text[i])])

\* self._pattern.search(line)
search(items, line) ==
    \E start \in 1..(Len(line) - Len(items) + 1) :
        \A j \in DOMAIN items : line[start + j - 1] \in items[j]

\* seconds of the clock and the text strftime("%Y-%m-%d_%H%M%S") gives for each
TsSymbols == <<"T1", "T2", "T3", "T4", "T5", "T6">>

\* a character \w matches: a letter, a digit or the underscore
IsReWord(c) ==
    \/ \E i \in DOMAIN LowerCase : LowerCase[i] = c
    \/ \E i \in DOMAIN UpperCase : UpperCase[i] = c
    \/ c \in Digits \/ c = "_"

RECURSIVE CollapseUnderscores(_)
\* re.sub(r"_+", "_", s)
CollapseUnderscores(s) ==
    IF Len(s) < 2 THEN s
    ELSE IF s[1] = "_" /\ s[2] = "_" THEN CollapseUnderscores(Tail(s))
    ELSE <<s[1]>> \o CollapseUnderscores(Tail(s))

RECURSIVE StripUnderscores(_)
\* str.strip("_")
StripUnderscores(s) ==
    IF s # <<>> /\ s[1] = "_" THEN StripUnderscores(Tail(s))
    ELSE IF s # <<>> /\ s[Len(s)] = "_" THEN StripUnderscores(SubSeq(s, 1, Len(s) - 1))
    ELSE s

\* the number of characters of the head
HeadLen == 16

\* a unique_name that leaves runs of underscores as they are
unique_name_no_collapse(pattern, now) ==
    LET n == [i \in DOMAIN pattern |->
                 IF NFKC(pattern[i]) = " " THEN "_" ELSE NFKC(pattern[i])]
        w == StripUnderscores(SelectSeq(n, IsReWord))
        cut == SubSeq(w, 1, IF Len(w) < HeadLen THEN Len(w) ELSE HeadLen)
        head == IF cut = <<>> THEN <<"s", "e", "a", "r", "c", "h">>
                ELSE [i \in DOMAIN cut |-> Lower(cut[i])]
    IN  head \o <<"_", TsSymbols[now]>>

\* SearchPattern.unique_name at the second now of the clock
unique_name(pattern, now) ==
    LET n == [i \in DOMAIN pattern |->
                 IF NFKC(pattern[i]) = " " THEN "_" ELSE NFKC(pattern[i])]
        w == StripUnderscores(CollapseUnderscores(SelectSeq(n, IsReWord)))
        cut == SubSeq(w, 1, IF Len(w) < HeadLen THEN Len(w) ELSE HeadLen)
        head == IF cut = <<>> THEN <<"s", "e", "a", "r", "c", "h">>
                ELSE [i \in DOMAIN cut |-> Lower(cut[i])]
    IN  head \o <<"_", TsSymbols[now]>>

----------------------------------------------------------------------------
(* hit_line.py, hit_report.py: HitLine and HitReport; the rows of          *)
(* MailCsvExporter.process_all (mail_grep.py) have the same fields.        *)
(*                                                                         *)
(* A date_dt is NoDate (None) or a timestamp 1, 2, ...                     *)

NoDate == 0

\* HitLine.__init__
HitLine(keys, mid, hit, parttype, line) ==
    [mail_keys |-> keys, mail_id |-> mid, hit_count |-> hit,
     parttype |-> parttype, line |-> Strip(line)]

\* a sort key that orders the dated lines by ascending timestamp
sort_key_ascending(row) ==
    LET dt == row.mail_keys.date_dt
    IN  <<dt = NoDate, IF dt # NoDate THEN dt ELSE 0>>

\* HitReport.sort._sort_key (sort_key in process_all):
\* (dt is None, -(dt.timestamp() if dt else 0))
_sort_key(row) ==
    LET dt == row.mail_keys.date_dt
    IN  <<dt = NoDate, -(IF dt # NoDate THEN dt ELSE 0)>>

\* k1 < k2: a comparison under which a line overtakes the lines of its own key
KeyLT(k1, k2) ==
    \/ ~k1[1] /\ k2[1]
    \/ k1[1] = k2[1] /\ k1[2] < k2[2]

\* k1 <= k2 for two (bool, number) tuples, False before True
KeyLE(k1, k2) ==
    \/ ~k1[1] /\ k2[1]
    \/ k1[1] = k2[1] /\ k1[2] <= k2[2]

\* list.sort(key=_sort_key): ascending and stable
StableSort(lines) ==
    LET RECURSIVE ins(_, _)
        ins(sorted, x) ==
            IF sorted = <<>> THEN <<x>>
            ELSE IF KeyLE(_sort_key(Head(sorted)), _sort_key(x))
                 THEN <<Head(sorted)>> \o ins(Tail(sorted), x)
                 ELSE <<x>> \o sorted
        RECURSIVE srt(_)
        srt(l) == IF l = <<>> THEN <<>>
                  ELSE ins(srt(SubSeq(l, 1, Len(l) - 1)), l[Len(l)])
    IN  srt(lines)

\* HitReport.sort
sort(hit_lines) == StableSort(hit_lines)

\* a count of the hit lines
mail_count_all_lines(hit_lines) == Len(hit_lines)

\* HitReport.mail_count: sum(1 for row in hit_lines if row.hit_count == 1)
mail_count(hit_lines) ==
    Cardinality({i \in DOMAIN hit_lines : hit_lines[i].hit_count = 1})

\* a sanitize that turns LF into a space
sanitize_lf_to_space(s) ==
    LET kept == SelectSeq(s, LAMBDA c : c # "\r")
    IN  [i \in DOMAIN kept |-> IF kept[i] = "\n" THEN " " ELSE kept[i]]

\* CsvFieldText.sanitize on a text: CR deleted, LF replaced by U+23CE
sanitize(s) ==
    LET kept == SelectSeq(s, LAMBDA c : c # "\r")
    IN  [i \in DOMAIN kept |-> IF kept[i] = "\n" THEN "U+23CE" ELSE kept[i]]

\* the cells a writer gets for one row: the sort key is dropped
WrittenRow(row) ==
    [mail_id |-> row.mail_id, hit_id |-> row.hit_count,
     parttype |-> sanitize(row.parttype), line |-> sanitize(row.line)]

WrittenRows(rs) == [i \in DOMAIN rs |-> WrittenRow(rs[i])]

\* no file written yet
NotWritten == [written |-> FALSE, rows |-> <<>>]

\* the characters openpyxl refuses in a cell (IllegalCharacterError): the
\* control characters other than TAB, LF and CR
IllegalXlsx == {"ESC"}

\* _write_xlsx raises at ws.append(values), before wb.save
XlsxRaises(rs) ==
    \E i \in DOMAIN rs :
        \E j \in DOMAIN rs[i].line : sanitize(rs[i].line)[j] \in IllegalXlsx

\* CsvFieldText._to_str: None gives "", a string is itself
_to_str(value) == IF value.present THEN value.v ELSE <<>>

\* CsvFieldText.sanitize on None or a string
sanitize_cell(value) == sanitize(_to_str(value))

\* RawHeaderText.remove_crlf on None or a string of characters
remove_crlf_text(value) ==
    IF ~value.present \/ value.v = <<>> THEN <<>>
    ELSE LET cleaned == remove_crlf([i \in DOMAIN value.v |-> Ch(value.v[i])])
         IN  [i \in DOMAIN cleaned |-> cleaned[i].c]

\* str(n) for a small positive integer
DigitText == <<"1", "2", "3", "4", "5", "6", "7", "8", "9">>
IntText(n) == <<DigitText[n]>>

\* MailProfile.excel_link
excel_link(keys) ==
    IF keys.link = <<>> THEN <<>>
    ELSE <<"=HYPERLINK(\"">> \o keys.link \o <<"\",\"mail\")">>

\* HitReport.HEADERS
HEADERS == <<"mail_id", "hit_id", "message_id", "link", "Date", "From", "To",
             "Subject", "Matched Part", "Matched Line">>

\* the cells of a hit line, none of them sanitized
values_unsanitized(row) ==
    <<IntText(row.mail_id), IntText(row.hit_count), row.mail_keys.message_id,
      excel_link(row.mail_keys), row.mail_keys.date_str, row.mail_keys.from_addr,
      row.mail_keys.to_addr, row.mail_keys.subj, <<row.parttype>>, row.line>>

\* HitLine.values
values(row) ==
    LET ret == <<IntText(row.mail_id), IntText(row.hit_count), row.mail_keys.message_id,
                 excel_link(row.mail_keys), row.mail_keys.date_str,
                 row.mail_keys.from_addr, row.mail_keys.to_addr, row.mail_keys.subj,
                 <<row.parttype>>, row.line>>
    IN  [i \in DOMAIN ret |-> sanitize(ret[i])]

\* a file not stored, and the file _store_csv or _store_xlsx writes
NotStored == [written |-> FALSE, header |-> <<>>, rows |-> <<>>]
StoredFile(hit_lines) ==
    [written |-> TRUE, header |-> HEADERS,
     rows |-> [i \in DOMAIN hit_lines |-> values(hit_lines[i])]]

\* path.suffix.lower() for the suffixes of the paths given to store
SuffixLower(suffix) ==
    CASE suffix \in {".csv", ".CSV", ".Csv"} -> ".csv"
      [] suffix \in {".xlsx", ".XLSX"} -> ".xlsx"
      [] suffix = ".TXT" -> ".txt"
      [] OTHER -> suffix

\* a store that compares the suffix as it is written
store_case_sensitive(hit_lines, out, suffix) ==
    IF suffix = ".csv"
    THEN [out |-> [out EXCEPT !["csv"] = StoredFile(hit_lines)], error |-> "none"]
    ELSE IF suffix = ".xlsx"
    THEN IF XlsxRaises(hit_lines)
         THEN [out |-> out, error |-> "IllegalCharacterError"]
         ELSE [out |-> [out EXCEPT !["xlsx"] = StoredFile(hit_lines)], error |-> "none"]
    ELSE [out |-> out, error |-> "ValueError"]

\* HitReport.store(path): the files after the call and the exception raised
store(hit_lines, out, suffix) ==
    IF SuffixLower(suffix) = ".csv"
    THEN [out |-> [out EXCEPT !["csv"] = StoredFile(hit_lines)], error |-> "none"]
    ELSE IF SuffixLower(suffix) = ".xlsx"
    THEN IF XlsxRaises(hit_lines)
         THEN [out |-> out, error |-> "IllegalCharacterError"]
         ELSE [out |-> [out EXCEPT !["xlsx"] = StoredFile(hit_lines)], error |-> "none"]
    ELSE [out |-> out, error |-> "ValueError"]

----------------------------------------------------------------------------
(* mail_message.py / mail_grep.py: the date of a message.                  *)

\* the texts email.utils.parsedate_to_datetime accepts; text t is the date
\* with timestamp t
DateSymbols == <<"@1", "@2", "@3">>

\* parsedate_to_datetime(v): raises unless v is a date
ParseDate(v) ==
    IF Len(v) = 1 /\ \E t \in DOMAIN DateSymbols : DateSymbols[t] = v[1]
    THEN [ok |-> TRUE, ts |-> CHOOSE t \in DOMAIN DateSymbols : DateSymbols[t] = v[1]]
    ELSE [ok |-> FALSE, ts |-> 0]

\* the characters of a header value that holds no encoded word
PlainText(v) == [i \in DOMAIN v |-> IF v[i].k = "ch" THEN v[i].c ELSE "=?"]

\* MailMessage._date_dt (MailTextDecoder.get_date_dt): None when the header is
\* absent or empty, or when parsing raises
_date_dt(msg) ==
    LET v == to_str(msg.headers["Date"])
    IN  IF GetRaises(msg.headers["Date"]) THEN NoDate
        ELSE IF v = <<>> THEN NoDate
        ELSE IF ParseDate(PlainText(v)).ok THEN ParseDate(PlainText(v)).ts
        ELSE NoDate

\* dt.strftime("%Y-%m-%d %H:%M:%S"): text t is the date with timestamp t
FormattedSymbols == <<"#1", "#2", "#3">>
strftime(ts) == <<FormattedSymbols[ts]>>

\* MailMessage._date_str: the formatted date; when the try body raises, the
\* decoded header; when that raises too (the get raises again), ""
_date_str(msg) ==
    LET h == msg.headers["Date"]
        v == to_str(h)
    IN  IF GetRaises(h) THEN <<>>
        ELSE IF v = <<>> THEN <<>>
        ELSE IF ParseDate(PlainText(v)).ok THEN strftime(ParseDate(PlainText(v)).ts)
        ELSE IF decode(v).raised THEN <<>>
        ELSE decode(v).val

\* _subject_str, _from_addr, _to_addr: no try block around the get
HeaderStr(msg, k) ==
    IF GetRaises(msg.headers[k]) \/ decode(to_str(msg.headers[k])).raised
    THEN [raised |-> TRUE, val |-> <<>>]
    ELSE [raised |-> FALSE, val |-> decode(to_str(msg.headers[k])).val]

\* no profile built
NoProfile == [raised |-> TRUE]

\* MailMessage.profile: an exception of one argument leaves profile()
profile(msg) ==
    IF \E k \in {"Subject", "From", "To"} : HeaderStr(msg, k).raised
    THEN NoProfile
    ELSE [raised |-> FALSE,
          date_str |-> _date_str(msg), date_dt |-> _date_dt(msg),
          subj |-> HeaderStr(msg, "Subject").val,
          from_addr |-> HeaderStr(msg, "From").val,
          to_addr |-> HeaderStr(msg, "To").val]

----------------------------------------------------------------------------
(* The inputs the specifications draw from.                                *)

\* characters a header value is drawn from
HdrChars == {"a", " ", "\r", "\n", "e'"}
\* payloads an encoded word is drawn from
HdrPayloads == {<<>>, <<"A">>, <<"xE9">>, <<"xC3">>, <<"xC3", "xA9">>}
\* declared charsets: right, wrong for the bytes, unknown to Python, absent
HdrCharsets == {"utf-8", "ascii", "x-unknown", ""}

HdrTokens ==
    {Ch(c) : c \in HdrChars}
    \cup {Ew(cs, TRUE, b) : cs \in HdrCharsets, b \in HdrPayloads}
    \cup {Ew("utf-8", FALSE, <<"A">>)}

RawBytes == DigitBytes \cup {LF, "F"}

\* metadata strings and directory names
MetaStrings ==
    {<<"\\", "D", "r", "a", "f", "t", "s">>,
     <<"\\", "S", "e", "n", "t">>,
     <<"T", "r", "a", "s", "h">>,
     <<"I", "N", "B", "O", "X">>,
     <<"FULLWIDTH_S", "p", "_", "a", " ", "m">>}
MboxNames ==
    {<<"S", "e", "n", "t", " ", "M", "e", "s", "s", "a", "g", "e", "s", ".mbox">>,
     <<"I", "N", "B", "O", "X", ".mbox">>,
     <<"J", "u", "n", "k", ".mbox">>,
     <<"C", "a", "b", "i", "n", "e", "t", ".mbox">>}
ParentNames ==
    {RootName, <<"W", "o", "r", "k", ".mbox">>, <<"A", "r", "c", "h", "i", "v", "e", "s">>}
PlistLeaves ==
    {[t |-> "str", v |-> m] : m \in MetaStrings} \cup {[t |-> "num", v |-> <<>>]}
Infos ==
    {NoInfo, [exists |-> TRUE, ok |-> FALSE, leaves |-> <<>>]}
    \cup {[exists |-> TRUE, ok |-> TRUE, leaves |-> l] :
            l \in SeqsUpTo(PlistLeaves, MaxPlistStrings)}

\* the nodes a tree is built from
TreeInfos == {NoInfo, [exists |-> TRUE, ok |-> TRUE,
                       leaves |-> <<[t |-> "str", v |-> <<"T", "r", "a", "s", "h">>]>>]}
TreeNodes(n) ==
    {[kind |-> "mbox", parent |-> p, name |-> nm, info |-> i, mtime |-> 0] :
        p \in 0..(n - 1),
        nm \in {<<"I", "N", "B", "O", "X", ".mbox">>, <<"S", "e", "n", "t", ".mbox">>},
        i \in TreeInfos}
    \cup {[kind |-> "dir", parent |-> p, name |-> <<"M", "e", "s", "s", "a", "g", "e", "s">>,
           info |-> NoInfo, mtime |-> 0] : p \in 0..(n - 1)}
    \cup {[kind |-> "emlx", parent |-> p, name |-> <<"1", ".emlx">>,
           info |-> NoInfo, mtime |-> t] : p \in 0..(n - 1), t \in 1..MaxMtime}
\* a tree: every node's parent is an earlier node that is a directory
Trees ==
    {t \in UNION {[1..k -> UNION {TreeNodes(n) : n \in 1..MaxNodes}] : k \in 0..MaxNodes} :
        \A n \in DOMAIN t :
            /\ t[n].parent < n
            /\ t[n].parent # 0 => t[t[n].parent].kind # "emlx"}

\* the text of a part, the content types and the patterns of the search
BodySymbols == {"x", "y", " ", "<p>", "<script>", "</script>"}
ContentTypes == {"text/html", "text/plain", "text/enriched"}
PatternSymbols == {"x", "y", "<p>"}
Patterns == SeqsUpTo(PatternSymbols, 2) \ {<<>>}
SubjectValues == {Absent, Present(Plain(<<"x">>))}
MatchMessages ==
    {[fault |-> "none",
      headers |-> [k \in {"Subject", "From", "To", "Date"} |->
                      IF k = "Subject" THEN sv ELSE Absent],
      parts |-> <<[ctype |-> ct, text |-> tx]>>] :
        sv \in SubjectValues, ct \in ContentTypes, tx \in SeqsUpTo(BodySymbols, MaxBody)}

\* the messages a MailMessage is built from: every state of the four fields
\* with two bodies, and every bounded body with two states of the fields
MsBodySymbols == {"x", " ", "\n", "<p>", "<script>", "</script>"}
MsHeaderStates == {Absent, Present(Plain(<<"x">>)), Broken(Plain(<<"x">>))}
MsDateStates ==
    {Absent, Present(<<>>), Present(Plain(<<"@1">>)), Present(Plain(<<"x">>)),
     Present(<<Ew("utf-8", TRUE, <<"A">>)>>), Broken(Plain(<<"@2">>))}
MsHeaders ==
    {[k \in {"Subject", "From", "To", "Date"} |->
         CASE k = "Subject" -> hs [] k = "From" -> hf [] k = "To" -> ht
           [] OTHER -> hd] :
        hs \in MsHeaderStates, hf \in MsHeaderStates,
        ht \in {Absent, Broken(Plain(<<"x">>))}, hd \in MsDateStates}
MessageInputs ==
    {[fault |-> "none", headers |-> h,
      parts |-> <<[ctype |-> "text/plain", text |-> <<"x">>]>>] : h \in MsHeaders}
    \cup
    {[fault |-> "none",
      headers |-> [k \in {"Subject", "From", "To", "Date"} |->
                      IF k = "Subject" THEN hs ELSE Absent],
      parts |-> <<[ctype |-> ct, text |-> tx]>>] :
        hs \in {Absent, Present(Plain(<<"x">>))}, ct \in {"text/html", "text/plain"},
        tx \in SeqsUpTo(MsBodySymbols, MaxBody)}

\* the hit lines appended to a report
\* the profile of mail m with date d: mail 1 has line breaks in its subject
\* and in its line, and a link; the line of mail 2 holds a control character
ReportKeys(d, m) ==
    [date_dt |-> d,
     message_id |-> IF m = 1 THEN <<"<", "i", ">">> ELSE <<>>,
     link |-> IF m = 1 THEN <<"message:", "i">> ELSE <<>>,
     date_str |-> IF d = NoDate THEN <<>> ELSE strftime(d),
     from_addr |-> <<"a">>,
     to_addr |-> <<>>,
     subj |-> IF m = 1 THEN <<"x", "\r", "\n", "y">> ELSE <<"x">>]
ReportLines ==
    {HitLine(ReportKeys(d, m), m, h, "header",
             IF m = 1 THEN <<" ", "x", "\n", "x">>
             ELSE IF m = 2 THEN <<"x", "ESC">> ELSE <<"x">>) :
        d \in {NoDate} \cup 1..MaxTs, m \in {1, 2}, h \in {1}}

\* the suffixes of the paths given to store
StoreSuffixes == {".csv", ".CSV", ".xlsx", ".XLSX", ".txt", ""}

\* the patterns compiled and the lines searched
ClassExprs == {ClassExpr(n) : n \in ClassNames}
PatternAtoms == ClassExprs \cup {BracketSyms[b] : b \in DOMAIN BracketSyms} \cup {"a"}
PosixPatterns ==
    {lits \o <<atom>> : lits \in SeqsUpTo({"a"}, MaxLits), atom \in PatternAtoms}
SearchedLines == SeqsUpTo(LineChars, MaxLine)

\* the pattern texts a name is made from: an optional first character, a run
\* of "o" that is empty or reaches the length of the head, and a tail
NameChars == {"o", " ", "_", "!", "FULLWIDTH_S"}
Run(n) == [i \in 1..n |-> "o"]
FooBar == <<"f", "o", "o", " ", "b", "a", "r", "!", "!">>
NamePatterns ==
    {first \o Run(n) \o tail :
        first \in {<<>>, <<"o">>, <<"IDEOGRAPHIC_SPACE">>},
        n \in {0, HeadLen - 1, HeadLen},
        tail \in SeqsUpTo(NameChars, MaxTail)}
    \cup {FooBar}

\* the arguments of remove_crlf and sanitize
TextChars == {"a", " ", "\r", "\n"}
TextValues == {Absent} \cup {Present(t) : t \in SeqsUpTo(TextChars, MaxText)}

\* the pattern of the run, and the messages the files hold
DriverPattern == <<"x">>
Mail(fault, date, subject, ctype, text) ==
    [fault |-> fault,
     headers |-> [k \in {"Subject", "From", "To", "Date"} |->
                     CASE k = "Subject" -> subject
                       [] k = "Date" -> date
                       [] OTHER -> Absent],
     parts |-> <<[ctype |-> ctype, text |-> text]>>]
DriverMails ==
    {Mail("none", Present(Plain(<<"@1">>)), Present(Plain(<<"x">>)),
          "text/plain", <<"x", "\n", "y">>),
     Mail("none", Absent, Absent, "text/html", <<"x", "<p>", "x">>),
     Mail("none", Present(Plain(<<"@2">>)), Absent, "text/plain", <<"y">>),
     Mail("read", Absent, Absent, "text/plain", <<>>),
     Mail("none", Present(Plain(<<"@1">>)), Absent, "text/plain", <<" ", "x">>),
     Mail("none", Absent, Absent, "text/plain", <<"x", "ESC">>)}

----------------------------------------------------------------------------
(* Specifications: one per component, each leaving the others out.         *)

\* the decoder is not part of the run
DecOff ==
    /\ dec_pc = "off"
    /\ dec_value = <<>>
    /\ dec_result = [raised |-> FALSE, val |-> <<>>, log |-> <<>>]

\* the container reader is not part of the run
RdOff == rd_pc = "off" /\ rd_raw = <<>> /\ rd_out = <<>> /\ rd_data = <<>>

\* the classifier is not part of the run
ClOff ==
    /\ cl_pc = "off"
    /\ cl_mbox = [name |-> <<>>, parent |-> <<>>, info |-> NoInfo]
    /\ cl_result = [result |-> FALSE, tier |-> "none"]

\* the folder enumeration is not part of the run
FdOff == fd_pc = "off" /\ fd_tree = <<>> /\ fd_only_sent = FALSE /\ fd_emlxs = <<>>

\* the search is not part of the run
MtOff ==
    /\ mt_pc = "off"
    /\ mt_msg = [fault |-> "none",
                 headers |-> [k \in {"Subject", "From", "To", "Date"} |-> Absent],
                 parts |-> <<>>]
    /\ mt_pattern = <<>>
    /\ mt_matches = <<>>

\* the report is not part of the run
RpOff ==
    /\ rp_pc = "off" /\ rp_lines = <<>> /\ rp_before = <<>>
    /\ rp_out = [f \in {"csv", "xlsx"} |-> NotStored]
    /\ rp_suffix = "" /\ rp_error = "none"

\* no pattern is part of the run
PtOff ==
    /\ pt_pc = "off" /\ pt_egrep = <<>> /\ pt_regex = <<>> /\ pt_line = <<>>
    /\ pt_found = FALSE /\ pt_clock = 0 /\ pt_names = <<>>

\* No result of a text policy yet
NotCalled == [done |-> FALSE, val |-> <<>>]

\* the text policies are not part of the run
TxOff ==
    /\ tx_pc = "off" /\ tx_value = Absent /\ tx_header = NotCalled
    /\ tx_cell = NotCalled

\* no message is part of the run
MsOff ==
    /\ ms_pc = "off" /\ ms_msg = <<>> /\ ms_profile = NoProfile /\ ms_header = <<>>
    /\ ms_body = <<>> /\ ms_matches = <<>> /\ ms_warnings = <<>> /\ ms_called = {}

\* the driver is not part of the run
DrOff ==
    /\ pc = "off" /\ output_path = "" /\ files = <<>> /\ paths = <<>>
    /\ idx = 0 /\ mail_id = 0
    /\ cur_dt = NoDate /\ matches = <<>> /\ hit_count = 0 /\ rows = <<>>
    /\ warnings = <<>> /\ xlsx_out = NotWritten /\ csv_out = NotWritten
    /\ summary = -1 /\ event = "none" /\ started = {}

\* ---- EncodedHeader.decode on every bounded header value
DecInit ==
    /\ dec_pc = "ready"
    /\ dec_value \in SeqsUpTo(HdrTokens, MaxTokens)
    /\ dec_result = [raised |-> FALSE, val |-> <<>>, log |-> <<>>]
    /\ RdOff /\ ClOff /\ FdOff /\ MtOff /\ RpOff /\ DrOff /\ MsOff /\ PtOff /\ TxOff

Decode ==
    /\ dec_pc = "ready"
    /\ dec_result' = decode(dec_value)
    /\ dec_pc' = "done"
    /\ UNCHANGED <<dec_value, rd_vars, cl_vars, fd_vars, mt_vars, rp_vars, dr_vars, ms_vars, pt_vars, tx_vars>>

DecNext == Decode

SpecDecode == DecInit /\ [][DecNext]_vars

\* ---- _read_emlx on every bounded container
RdInit ==
    /\ rd_pc = "ready"
    /\ rd_raw \in SeqsUpTo(RawBytes, MaxRaw)
    /\ rd_out = <<>> /\ rd_data = <<>>
    /\ DecOff /\ ClOff /\ FdOff /\ MtOff /\ RpOff /\ DrOff /\ MsOff /\ PtOff /\ TxOff

ReadEmlx ==
    /\ rd_pc = "ready"
    /\ rd_out' = _read_emlx(rd_raw)
    /\ rd_pc' = "done"
    /\ UNCHANGED <<rd_raw, rd_data, dec_vars, cl_vars, fd_vars, mt_vars, rp_vars, dr_vars, ms_vars, pt_vars, tx_vars>>

\* MailMessage._load (MailTextDecoder.parse_message after the driver's
\* _read_emlx): the container is read, then the bytes go to the parser
Load ==
    /\ rd_pc = "ready"
    /\ rd_out' = _read_emlx(rd_raw)
    /\ rd_data' = parsed_data(_read_emlx(rd_raw))
    /\ rd_pc' = "loaded"
    /\ UNCHANGED <<rd_raw, dec_vars, cl_vars, fd_vars, mt_vars, rp_vars, dr_vars, ms_vars,
                   pt_vars, tx_vars>>

RdNext == ReadEmlx \/ Load

SpecReader == RdInit /\ [][RdNext]_vars

\* ---- is_excluded on every bounded mailbox directory
ClInit ==
    /\ cl_pc = "ready"
    /\ cl_mbox \in [name : MboxNames, parent : ParentNames, info : Infos]
    /\ cl_result = [result |-> FALSE, tier |-> "none"]
    /\ DecOff /\ RdOff /\ FdOff /\ MtOff /\ RpOff /\ DrOff /\ MsOff /\ PtOff /\ TxOff

IsExcluded ==
    /\ cl_pc = "ready"
    /\ cl_result' = is_excluded(cl_mbox)
    /\ cl_pc' = "done"
    /\ UNCHANGED <<cl_mbox, dec_vars, rd_vars, fd_vars, mt_vars, rp_vars, dr_vars, ms_vars, pt_vars, tx_vars>>

ClNext == IsExcluded

SpecClassifier == ClInit /\ [][ClNext]_vars

\* ---- mail_paths on every bounded directory tree
FdInit ==
    /\ fd_pc = "ready"
    /\ fd_tree \in Trees
    /\ fd_only_sent \in BOOLEAN
    /\ fd_emlxs = <<>>
    /\ DecOff /\ RdOff /\ ClOff /\ MtOff /\ RpOff /\ DrOff /\ MsOff /\ PtOff /\ TxOff

MailPaths ==
    /\ fd_pc = "ready"
    /\ fd_emlxs' = mail_paths(fd_tree, fd_only_sent)
    /\ fd_pc' = "done"
    /\ UNCHANGED <<fd_tree, fd_only_sent, dec_vars, rd_vars, cl_vars, mt_vars, rp_vars, dr_vars, ms_vars, pt_vars, tx_vars>>

FdNext == MailPaths

SpecFolder == FdInit /\ [][FdNext]_vars

\* ---- match_mail on every bounded message and pattern
MtInit ==
    /\ mt_pc = "ready"
    /\ mt_msg \in MatchMessages
    /\ mt_pattern \in Patterns
    /\ mt_matches = <<>>
    /\ DecOff /\ RdOff /\ ClOff /\ FdOff /\ RpOff /\ DrOff /\ MsOff /\ PtOff /\ TxOff

MatchMail ==
    /\ mt_pc = "ready"
    /\ mt_matches' = match_mail(mt_msg, mt_pattern)
    /\ mt_pc' = "done"
    /\ UNCHANGED <<mt_msg, mt_pattern, dec_vars, rd_vars, cl_vars, fd_vars, rp_vars, dr_vars, ms_vars, pt_vars, tx_vars>>

MtNext == MatchMail

SpecMatch == MtInit /\ [][MtNext]_vars

\* ---- MailMessage: built from a parsed message, then its methods called
MsInit ==
    /\ ms_pc = "new"
    /\ ms_msg \in MessageInputs
    /\ ms_profile = NoProfile /\ ms_header = <<>> /\ ms_body = <<>>
    /\ ms_matches = <<>> /\ ms_warnings = <<>> /\ ms_called = {}
    /\ DecOff /\ RdOff /\ ClOff /\ FdOff /\ MtOff /\ RpOff /\ DrOff /\ PtOff /\ TxOff

ms_others == <<dec_vars, rd_vars, cl_vars, fd_vars, mt_vars, rp_vars, dr_vars, pt_vars,
              tx_vars>>

\* MailMessage.__init__: self._profile = self.profile(); an exception of
\* profile() leaves the constructor and no MailMessage exists
Construct ==
    /\ ms_pc = "new"
    /\ ms_profile' = profile(ms_msg)
    /\ ms_pc' = IF profile(ms_msg).raised THEN "failed" ELSE "built"
    /\ UNCHANGED <<ms_msg, ms_header, ms_body, ms_matches, ms_warnings, ms_called,
                   ms_others>>

\* MailMessage.header_lines
HeaderLines ==
    /\ ms_pc = "built" /\ "header_lines" \notin ms_called
    /\ ms_header' = header_lines(ms_msg)
    /\ ms_warnings' = ms_warnings \o header_warnings(ms_msg)
    /\ ms_called' = ms_called \cup {"header_lines"}
    /\ UNCHANGED <<ms_pc, ms_msg, ms_profile, ms_body, ms_matches, ms_others>>

\* MailMessage.body_lines
BodyLines ==
    /\ ms_pc = "built" /\ "body_lines" \notin ms_called
    /\ ms_body' = body_lines(ms_msg)
    /\ ms_called' = ms_called \cup {"body_lines"}
    /\ UNCHANGED <<ms_pc, ms_msg, ms_profile, ms_header, ms_matches, ms_warnings,
                   ms_others>>

\* MailMessage.extract(pattern): it calls header_lines() and body_lines()
Extract ==
    /\ ms_pc = "built" /\ "extract" \notin ms_called
    /\ ms_matches' = match_mail(ms_msg, DriverPattern)
    /\ ms_warnings' = ms_warnings \o header_warnings(ms_msg)
    /\ ms_called' = ms_called \cup {"extract"}
    /\ UNCHANGED <<ms_pc, ms_msg, ms_profile, ms_header, ms_body, ms_others>>

MsNext == Construct \/ HeaderLines \/ BodyLines \/ Extract

SpecMessage == MsInit /\ [][MsNext]_vars

\* ---- HitReport: any hit lines appended, sorted at any time
RpInit ==
    /\ rp_pc = "open" /\ rp_lines = <<>> /\ rp_before = <<>>
    /\ rp_out = [f \in {"csv", "xlsx"} |-> NotStored]
    /\ rp_suffix = "" /\ rp_error = "none"
    /\ DecOff /\ RdOff /\ ClOff /\ FdOff /\ MtOff /\ DrOff /\ MsOff /\ PtOff /\ TxOff

rp_others == <<dec_vars, rd_vars, cl_vars, fd_vars, mt_vars, dr_vars, ms_vars, pt_vars,
              tx_vars>>

\* HitReport.append_hit_line
AppendHitLine ==
    /\ rp_pc \in {"open", "sorted"}
    /\ Len(rp_lines) < MaxLines
    /\ \E line \in ReportLines : rp_lines' = Append(rp_lines, line)
    /\ rp_pc' = "open"
    /\ UNCHANGED <<rp_before, rp_out, rp_suffix, rp_error, rp_others>>

\* HitReport.sort
SortReport ==
    /\ rp_pc = "open"
    /\ rp_before' = rp_lines
    /\ rp_lines' = sort(rp_lines)
    /\ rp_pc' = "sorted"
    /\ UNCHANGED <<rp_out, rp_suffix, rp_error, rp_others>>

\* HitReport.store(path), for a path with any of the suffixes; the report is
\* stored when it is complete, nothing is appended to it afterwards
Store ==
    /\ rp_pc \in {"open", "sorted", "stored"}
    /\ \E suffix \in StoreSuffixes :
          /\ rp_suffix' = suffix
          /\ rp_out' = store(rp_lines, rp_out, suffix).out
          /\ rp_error' = store(rp_lines, rp_out, suffix).error
    /\ rp_pc' = "stored"
    /\ UNCHANGED <<rp_lines, rp_before, rp_others>>

RpNext == AppendHitLine \/ SortReport \/ Store

SpecReport == RpInit /\ [][RpNext]_vars

\* ---- HitReport filled mail by mail, as the loop of process_all fills it
\* the hit lines of mail m with date d: hit_count 1..k
MailLines(d, m, k) ==
    [h \in 1..k |-> HitLine(ReportKeys(d, m), m, h, "text/plain", <<"x">>)]

\* the mail_id of the next mail: the counter of the loop
NextMailId(hit_lines) ==
    1 + Cardinality({hit_lines[i].mail_id : i \in DOMAIN hit_lines})

\* the inner loop of process_all for one mail: its hit lines are appended one
\* after the other, hit_count counting from 1
AppendMail ==
    /\ rp_pc \in {"open", "sorted"}
    /\ \E d \in {NoDate} \cup 1..MaxTs, k \in 1..(MaxLines - Len(rp_lines)) :
          rp_lines' = rp_lines \o MailLines(d, NextMailId(rp_lines), k)
    /\ rp_pc' = "open"
    /\ UNCHANGED <<rp_before, rp_out, rp_suffix, rp_error, rp_others>>

MlNext == AppendMail \/ SortReport

SpecMails == RpInit /\ [][MlNext]_vars

\* ---- SearchPattern: a pattern compiled, a line searched
PtInit ==
    /\ pt_pc = "new"
    /\ pt_egrep \in PosixPatterns
    /\ pt_regex = <<>> /\ pt_line = <<>> /\ pt_found = FALSE
    /\ pt_clock = 0 /\ pt_names = <<>>
    /\ DecOff /\ RdOff /\ ClOff /\ FdOff /\ MtOff /\ RpOff /\ DrOff /\ MsOff /\ TxOff

pt_others == <<dec_vars, rd_vars, cl_vars, fd_vars, mt_vars, rp_vars, dr_vars, ms_vars,
              tx_vars>>

\* SearchPattern.__init__
Compile ==
    /\ pt_pc = "new"
    /\ pt_regex' = _egrep_to_python_regex(pt_egrep)
    /\ pt_pc' = "compiled"
    /\ UNCHANGED <<pt_egrep, pt_line, pt_found, pt_clock, pt_names, pt_others>>

\* self._pattern.search(line) on any line
CheckLine ==
    /\ pt_pc = "compiled"
    /\ \E line \in SearchedLines :
          /\ pt_line' = line
          /\ pt_found' = search(re_compile(pt_regex), line)
    /\ pt_pc' = "searched"
    /\ UNCHANGED <<pt_egrep, pt_regex, pt_clock, pt_names, pt_others>>

PtNext == Compile \/ CheckLine

SpecPattern == PtInit /\ [][PtNext]_vars

\* ---- SearchPattern.unique_name: called at any seconds of the clock
NmInit ==
    /\ pt_pc = "compiled"
    /\ pt_egrep \in NamePatterns
    /\ pt_regex = _egrep_to_python_regex(pt_egrep)
    /\ pt_line = <<>> /\ pt_found = FALSE
    /\ pt_clock = 1 /\ pt_names = <<>>
    /\ DecOff /\ RdOff /\ ClOff /\ FdOff /\ MtOff /\ RpOff /\ DrOff /\ MsOff /\ TxOff

\* SearchPattern.unique_name
UniqueName ==
    /\ pt_pc = "compiled"
    /\ Len(pt_names) < MaxCalls
    /\ pt_names' = Append(pt_names, unique_name(pt_egrep, pt_clock))
    /\ UNCHANGED <<pt_pc, pt_egrep, pt_regex, pt_line, pt_found, pt_clock, pt_others>>

\* a second passes
Tick ==
    /\ pt_pc = "compiled"
    /\ pt_clock < MaxClock
    /\ pt_clock' = pt_clock + 1
    /\ UNCHANGED <<pt_pc, pt_egrep, pt_regex, pt_line, pt_found, pt_names, pt_others>>

NmNext == UniqueName \/ Tick

SpecName == NmInit /\ [][NmNext]_vars

\* ---- remove_crlf and sanitize on every bounded argument
TxInit ==
    /\ tx_pc = "ready"
    /\ tx_value \in TextValues
    /\ tx_header = NotCalled /\ tx_cell = NotCalled
    /\ DecOff /\ RdOff /\ ClOff /\ FdOff /\ MtOff /\ RpOff /\ DrOff /\ MsOff /\ PtOff

tx_others == <<dec_vars, rd_vars, cl_vars, fd_vars, mt_vars, rp_vars, dr_vars, ms_vars,
              pt_vars>>

\* RawHeaderText.remove_crlf(value)
RemoveCrlf ==
    /\ tx_pc = "ready" /\ ~tx_header.done
    /\ tx_header' = [done |-> TRUE, val |-> remove_crlf_text(tx_value)]
    /\ UNCHANGED <<tx_pc, tx_value, tx_cell, tx_others>>

\* CsvFieldText.sanitize(value)
Sanitize ==
    /\ tx_pc = "ready" /\ ~tx_cell.done
    /\ tx_cell' = [done |-> TRUE, val |-> sanitize_cell(tx_value)]
    /\ UNCHANGED <<tx_pc, tx_value, tx_header, tx_others>>

TxNext == RemoveCrlf \/ Sanitize

SpecText == TxInit /\ [][TxNext]_vars

\* the suffixes of the paths given with -o (main)
OutputSuffixes == {".csv", ".xlsx", ".txt"}

\* ---- MailCsvExporter.process_all: one run over the files under root_dir
Init ==
    /\ pc = "enum"
    /\ output_path \in OutputSuffixes
    /\ files \in SeqsUpTo(DriverMails, MaxFiles)
    /\ paths = <<>> /\ idx = 0
    /\ rows = <<>> /\ mail_id = 1
    /\ cur_dt = NoDate /\ matches = <<>> /\ hit_count = 0
    /\ warnings = <<>> /\ xlsx_out = NotWritten /\ csv_out = NotWritten
    /\ summary = -1 /\ event = "none" /\ started = {}
    /\ DecOff /\ RdOff /\ ClOff /\ FdOff /\ MtOff /\ RpOff /\ MsOff /\ PtOff /\ TxOff

others == <<dec_vars, rd_vars, cl_vars, fd_vars, mt_vars, rp_vars, ms_vars, pt_vars,
           tx_vars>>

\* self._output_path.with_suffix(suffix): the stem is kept, so a path is told
\* from another by its suffix
with_suffix(path, suffix) == suffix

\* the paths of the files _write_xlsx and _write_csv have written
WrittenPaths ==
    (IF xlsx_out.written THEN {with_suffix(output_path, ".xlsx")} ELSE {})
    \cup (IF csv_out.written THEN {with_suffix(output_path, ".csv")} ELSE {})

\* the finally block: sort, count, write the spreadsheet, write the text file,
\* log the count; an exception of _write_xlsx leaves the block
Finalize ==
    /\ rows' = sort(rows)
    /\ IF XlsxRaises(sort(rows))
       THEN /\ UNCHANGED <<xlsx_out, csv_out, summary>>
            /\ pc' = "crashed"
       ELSE /\ xlsx_out' = [written |-> TRUE, rows |-> WrittenRows(sort(rows))]
            /\ csv_out' = [written |-> TRUE, rows |-> WrittenRows(sort(rows))]
            /\ summary' = mail_count(sort(rows))
            /\ pc' = "done"

\* an exception of one file that leaves the loop: only the finally block runs
SkipFile_propagates ==
    /\ Finalize
    /\ UNCHANGED <<warnings, idx, mail_id>>

\* except Exception: the warning names the file, the loop goes on; mail_id is
\* not advanced
SkipFile ==
    /\ warnings' = Append(warnings, <<"Skipped", paths[idx]>>)
    /\ idx' = idx + 1
    /\ pc' = "loop"
    /\ UNCHANGED <<rows, mail_id, xlsx_out, csv_out, summary>>

\* self._finder.mail_paths() of mail_grep.py: list(root_dir.rglob("*.emlx"))
Enumerate ==
    /\ pc = "enum"
    /\ paths' = [i \in DOMAIN files |-> i]
    /\ idx' = 1
    /\ pc' = "loop"
    /\ event' = "enum"
    /\ UNCHANGED <<output_path, files, mail_id, cur_dt, matches, hit_count, rows, warnings,
                   xlsx_out, csv_out, summary, started, others>>

\* one file: read, parse, profile, match_mail; an exception skips the file
BeginFile ==
    /\ pc = "loop" /\ idx <= Len(paths)
    /\ started' = started \cup {idx}
    /\ LET msg == files[paths[idx]]
       IN  IF msg.fault # "none"
           THEN /\ SkipFile
                /\ event' = "skip"
                /\ UNCHANGED <<cur_dt, matches, hit_count>>
           ELSE /\ cur_dt' = _date_dt(msg)
                /\ matches' = match_mail(msg, DriverPattern)
                /\ hit_count' = 0
                /\ pc' = "hits"
                /\ event' = "file"
                /\ UNCHANGED <<idx, mail_id, rows, warnings, xlsx_out, csv_out, summary>>
    /\ UNCHANGED <<output_path, files, paths, others>>

\* one turn of the loop over the matches: count, print, append the row; the
\* print may raise (an encoding error of the console, a closed pipe)
Hit ==
    /\ pc = "hits" /\ matches # <<>>
    /\ hit_count' = hit_count + 1
    /\ \E print_ok \in BOOLEAN :
          IF print_ok
          THEN /\ rows' = Append(rows,
                     [mail_keys |-> [date_dt |-> cur_dt], mail_id |-> mail_id,
                      hit_count |-> hit_count + 1, parttype |-> Head(matches).parttype,
                      line |-> Strip(Head(matches).line), path |-> paths[idx]])
               /\ matches' = Tail(matches)
               /\ event' = "hit"
               /\ UNCHANGED <<pc, idx, mail_id, warnings, xlsx_out, csv_out, summary>>
          ELSE /\ SkipFile
               /\ event' = "skip"
               /\ UNCHANGED matches
    /\ UNCHANGED <<output_path, files, paths, cur_dt, started, others>>

\* the matches are exhausted: mail_id += 1, next file
EndFile ==
    /\ pc = "hits" /\ matches = <<>>
    /\ mail_id' = mail_id + 1
    /\ idx' = idx + 1
    /\ pc' = "loop"
    /\ event' = "endfile"
    /\ UNCHANGED <<output_path, files, paths, cur_dt, matches, hit_count, rows, warnings,
                   xlsx_out, csv_out, summary, started, others>>

\* KeyboardInterrupt inside the try block: the handler logs, the finally block runs
Interrupt ==
    /\ pc \in {"enum", "loop", "hits"}
    /\ warnings' = Append(warnings, <<"Interrupted", 0>>)
    /\ Finalize
    /\ event' = "interrupt"
    /\ UNCHANGED <<output_path, files, paths, idx, mail_id, cur_dt, matches, hit_count, started, others>>

\* the loop ends: the finally block runs
Finish ==
    /\ pc = "loop" /\ idx > Len(paths)
    /\ Finalize
    /\ event' = "finish"
    /\ UNCHANGED <<output_path, files, paths, idx, mail_id, cur_dt, matches, hit_count, warnings,
                   started, others>>

Next == Enumerate \/ BeginFile \/ Hit \/ EndFile \/ Interrupt \/ Finish

Spec == Init /\ [][Next]_vars

----------------------------------------------------------------------------
(* The claims.                                                             *)

\* the header splitter accepts the value: no encoded word is malformed
HdrAccepted(value) == \A i \in DOMAIN value : value[i].k = "ew" => value[i].ok

\* the value holds an encoded word with a non-empty payload, or a character
\* that is neither CR nor whitespace
HdrHasContent(value) ==
    \E i \in DOMAIN value :
        \/ value[i].k = "ew" /\ value[i].b # <<>>
        \/ value[i].k = "ch" /\ ~IsSpace(value[i].c)

C9_ReadEmlxFraming ==
    rd_pc = "done" =>
        /\ ~StartsWithDigit(rd_raw) => rd_out = rd_raw
        /\ (StartsWithDigit(rd_raw) /\ \E i \in DOMAIN rd_raw : rd_raw[i] = LF) =>
              \E n \in DOMAIN rd_raw :
                  /\ rd_raw[n] = LF
                  /\ \A i \in 1..(n - 1) : rd_raw[i] # LF
                  /\ rd_raw = SubSeq(rd_raw, 1, n) \o rd_out

\* C9 witness: b"37\n" + payload was read and gave the payload
C9_Witness ==
    /\ rd_pc = "done"
    /\ Len(rd_raw) = 4
    /\ SubSeq(rd_raw, 1, 3) = <<"3", "7", LF>>
    /\ rd_out = <<rd_raw[4]>>


\* some metadata string of the mailbox, normalized, contains a special-attribute
\* token or an exclusion-vocabulary token
MetaMatches(mbox) ==
    /\ mbox.info.exists /\ mbox.info.ok
    /\ \E i \in DOMAIN mbox.info.leaves :
          /\ mbox.info.leaves[i].t = "str"
          /\ \E tok \in SPECIAL_ATTR_TOKENS \cup EXCLUDE_TOKENS :
                Contains(_norm(mbox.info.leaves[i].v), tok)

\* the directory name or the parent's name, normalized, contains an
\* exclusion-vocabulary token
NameMatches(mbox) ==
    \E nm \in {Stem(mbox.name), mbox.parent} :
        \E tok \in EXCLUDE_TOKENS : Contains(_norm(nm), tok)

\* C8: metadata first: a mailbox whose metadata matches either tier is excluded
\* whatever its name is; the names are consulted only when there is no metadata
\* file or no metadata string matched; the result is false when neither matches.
C8_MetadataBeforeNames ==
    cl_pc = "done" =>
        /\ MetaMatches(cl_mbox) => cl_result.result /\ cl_result.tier # "names"
        /\ cl_result.tier = "names" <=> ~MetaMatches(cl_mbox)
        /\ ~MetaMatches(cl_mbox) => (cl_result.result <=> NameMatches(cl_mbox))

\* C8 witness: a Drafts-marked mailbox named "Sent Messages" was excluded by
\* its metadata
C8_Witness ==
    /\ cl_pc = "done"
    /\ cl_mbox.name[1] = "S" /\ cl_mbox.parent = RootName
    /\ cl_mbox.info.exists
    /\ cl_mbox.info.leaves = <<[t |-> "str", v |-> <<"\\", "D", "r", "a", "f", "t", "s">>]>>
    /\ cl_result.result
    /\ cl_result.tier # "names"

\* C7: mail_paths returns no path twice, for every directory tree.
C7_NoPathTwice ==
    fd_pc = "done" =>
        \A i, j \in DOMAIN fd_emlxs : fd_emlxs[i] = fd_emlxs[j] => i = j

\* the entries of the message whose view is v and which the pattern matches
MatchedEntries(v) ==
    SelectSeq(body_lines(mt_msg),
              LAMBDA e : e.parttype = v /\ check_line(mt_pattern, e.line))

SameKeyLines(lines, d) == SelectSeq(lines, LAMBDA l : l.mail_keys.date_dt = d)
C3_SortedByDateDescending ==
    rp_pc = "sorted" =>
        /\ Len(rp_lines) = Len(rp_before)
        /\ \A i, j \in DOMAIN rp_lines :
              i < j =>
                 LET di == rp_lines[i].mail_keys.date_dt
                     dj == rp_lines[j].mail_keys.date_dt
                 IN  /\ di = NoDate => dj = NoDate
                     /\ (di # NoDate /\ dj # NoDate) => di >= dj
        /\ \A d \in {NoDate} \cup 1..MaxTs :
              SameKeyLines(rp_lines, d) = SameKeyLines(rp_before, d)
\* a sort that moved an undated line behind two dated ones, a later date first,
\* two lines of one date kept in order
C3_Witness ==
    /\ rp_pc = "sorted"
    /\ rp_lines # rp_before
    /\ Len(rp_lines) = 3
    /\ rp_before[1].mail_keys.date_dt = NoDate
    /\ rp_lines[1].mail_keys.date_dt > rp_lines[2].mail_keys.date_dt
    /\ rp_lines[3].mail_keys.date_dt = NoDate

\* C1: a step that skips a file (an exception of its processing) leaves rows as
\* they were, logs a warning naming the file and goes on with the next file;
\* when the loop has ended every file was started and the finally block ran.
C1_BadFileIsSkipped ==
    /\ [][event' = "skip" =>
            /\ rows' = rows
            /\ warnings' = Append(warnings, <<"Skipped", paths[idx]>>)
            /\ idx' = idx + 1
            /\ pc' = "loop"]_vars
    /\ [](event = "finish" =>
            /\ started = DOMAIN files
            /\ pc \in {"done", "crashed"})
\* a file was skipped, a later file still gave rows, and the outputs were written
C1_Witness ==
    /\ pc = "done" /\ event = "finish"
    /\ csv_out.written
    /\ \E w \in DOMAIN warnings :
          /\ warnings[w][1] = "Skipped"
          /\ \E r, q \in DOMAIN rows :
                rows[r].path > warnings[w][2] /\ rows[q].path < warnings[w][2]

\* C2: after an interrupt no further file is started, the rows accumulated are
\* sorted and written in both formats, and the count is logged.
C2_InterruptPersistsHits ==
    event = "interrupt" =>
        /\ xlsx_out.written /\ csv_out.written
        /\ xlsx_out.rows = WrittenRows(rows) /\ csv_out.rows = WrittenRows(rows)
        /\ summary = mail_count(rows)

\* C4: mail_count() of the rows the driver appended, before and after the sort,
\* is the number of distinct files that have a row, not the number of rows.
C4_MailCountIsDistinctMails ==
    mail_count(rows) = Cardinality({rows[r].path : r \in DOMAIN rows})
\* two files with rows, one of them with two, sorted and counted
C4_Witness ==
    /\ pc = "done"
    /\ summary = 2
    /\ Len(rows) > 2
    /\ rows[1].path > rows[2].path

\* C5: in rows, mail ids are at least 1, two files never share a mail id, a
\* later file never has a smaller id than an earlier one, and the hit counts
\* of each mail id are 1..k, each once.
C5_IdsNumberFiles ==
    /\ \A r \in DOMAIN rows : rows[r].mail_id >= 1
    /\ \A r, q \in DOMAIN rows :
          /\ rows[r].path # rows[q].path => rows[r].mail_id # rows[q].mail_id
          /\ rows[r].path < rows[q].path => rows[r].mail_id <= rows[q].mail_id
    /\ \A r \in DOMAIN rows :
          LET mine == {q \in DOMAIN rows : rows[q].mail_id = rows[r].mail_id}
          IN  /\ {rows[q].hit_count : q \in mine} = 1..Cardinality(mine)

\* the line header_lines is to give for a field it could not read
InvalidLine(k) == FieldText(k) \o <<":", " ", "[INVALID HEADER]">>

\* C11: when reading one of Subject, From, To, Date raises, the message is
\* still built (not skipped as a whole), header_lines gives the line
\* "<Field>: [INVALID HEADER]" for that field and logs a warning for it, and
\* extract still returns the matching body lines.
C11_OnlyTheFieldIsDegraded ==
    (ms_pc \in {"built", "failed"}
       /\ \E k \in DOMAIN ms_msg.headers : GetRaises(ms_msg.headers[k])) =>
        /\ ms_pc = "built"
        /\ "header_lines" \in ms_called =>
              \A k \in DOMAIN ms_msg.headers :
                  GetRaises(ms_msg.headers[k]) =>
                      /\ \E i \in DOMAIN ms_header : ms_header[i] = InvalidLine(k)
                      /\ \E w \in DOMAIN ms_warnings : ms_warnings[w] = k
        /\ "extract" \in ms_called =>
              SelectSeq(ms_matches, LAMBDA e : e.parttype # "header")
                = SelectSeq(body_lines(ms_msg),
                            LAMBDA e : /\ e.parttype \in SearchedPartTypes
                                       /\ check_line(DriverPattern, e.line))

\* the fields of the message that are present, in the fixed order
PresentFields(msg) == SelectSeq(HeaderFields, LAMBDA k : msg.headers[k].present)

\* C12: header_lines gives, in the order Subject, From, To, Date, one line for
\* each field that is present and none for an absent field; each line is
\* "<FieldName>: <decoded value>" and holds no CR or LF.
C12_OneLinePerPresentField ==
    "header_lines" \in ms_called =>
        LET ks == PresentFields(ms_msg)
        IN  /\ Len(ms_header) = Len(ks)
            /\ \A i \in DOMAIN ms_header :
                  /\ i <= Len(ks) =>
                        \/ ms_header[i] = InvalidLine(ks[i])
                        \/ ms_header[i] = FieldText(ks[i]) \o <<":", " ">>
                              \o StripBreaks(decode(ms_msg.headers[ks[i]].v).val)
                  /\ \A j \in DOMAIN ms_header[i] : ms_header[i][j] \notin {"\r", "\n"}

\* the part of the message is an HTML part with a payload
HtmlPart == ms_msg.parts[1].ctype = "text/html" /\ ms_msg.parts[1].text # <<>>

\* C14 (as stated): for an HTML part body_lines gives the raw markup, then one
\* text/html_textonly entry per stripped text segment, then, when there is
\* visible text, one text/html_concat entry equal to the segments joined.
C14_OneEntryPerSegment ==
    ("body_lines" \in ms_called /\ HtmlPart) =>
        LET strs == stripped_strings(ms_msg.parts[1].text)
        IN  ms_body =
               <<Entry(ms_msg.parts[1].text, "text/html")>>
               \o [i \in DOMAIN strs |-> Entry(strs[i], "text/html_textonly")]
               \o (IF strs # <<>> THEN <<Entry(Concat(strs), "text/html_concat")>>
                   ELSE <<>>)

\* C14 (amended): for an HTML part body_lines gives, in this order: one
\* text/html entry with the whole markup; the text/html_textonly entries, which
\* hold no line break, are not blank, and read in order are the stripped text
\* segments with their line breaks and blank lines taken out; and, when there is
\* visible text, one last text/html_concat entry equal to the stripped segments
\* joined with no separator (line breaks inside a segment stay in it).
C14_HtmlViews ==
    ("body_lines" \in ms_called /\ HtmlPart) =>
        LET strs == stripped_strings(ms_msg.parts[1].text)
            n == Len(ms_body)
            last == IF strs = <<>> THEN n ELSE n - 1
            mid == SubSeq(ms_body, 2, last)
            NoBreak(t) == SelectSeq(t, LAMBDA c : c # "\n")
            Dense(t) == SelectSeq(t, LAMBDA c : ~IsSpace(c))
        IN  /\ n >= 1
            /\ ms_body[1] = Entry(ms_msg.parts[1].text, "text/html")
            /\ strs = <<>> => n = 1
            /\ strs # <<>> => n >= 3 /\ ms_body[n] = Entry(Concat(strs), "text/html_concat")
            /\ \A i \in DOMAIN mid :
                  /\ mid[i].parttype = "text/html_textonly"
                  /\ Strip(mid[i].line) # <<>>
                  /\ \A j \in DOMAIN mid[i].line : mid[i].line[j] # "\n"
            /\ Dense(Concat([i \in DOMAIN mid |-> mid[i].line])) = Dense(Concat(strs))
            /\ Len(mid) = Len(SelectSeq(
                    Concat([i \in DOMAIN strs |-> SplitOn(strs[i], {"\n"}, <<>>)]),
                    LAMBDA l : Strip(l) # <<>>))

\* two segments around a tag: the raw entry, two lines, the concatenation
C14_Witness ==
    /\ "body_lines" \in ms_called /\ HtmlPart
    /\ ms_msg.parts[1].text = <<"x", "<p>", "x">>
    /\ Len(ms_body) = 4
    /\ ms_body[4] = Entry(<<"x", "x">>, "text/html_concat")

\* the Date field of the message cannot be parsed as a date
DateUnparsable(h) ==
    h.present /\ (GetRaises(h) \/ ~ParseDate(PlainText(h.v)).ok)

\* C18: date_dt is None exactly when the Date header is absent or cannot be
\* parsed as a date; then date_str is the decoded raw header text ("" when the
\* header is absent); otherwise date_str is that date formatted.
C18_DateKeyAndDisplay ==
    ms_pc = "built" =>
        LET h == ms_msg.headers["Date"]
        IN  /\ ms_profile.date_dt = NoDate <=> (~h.present \/ DateUnparsable(h))
            /\ ~h.present => ms_profile.date_str = <<>>
            /\ DateUnparsable(h) => ms_profile.date_str = decode(h.v).val
            /\ (h.present /\ ~DateUnparsable(h)) =>
                  ms_profile.date_str = strftime(ParseDate(PlainText(h.v)).ts)
            /\ ms_profile.date_dt # NoDate =>
                  ms_profile.date_str = strftime(ms_profile.date_dt)

\* what each symbol of a pattern text asks for in POSIX: a class expression
\* asks for one character of its class, a character for itself
PosixItems(pattern) ==
    [i \in DOMAIN pattern |->
        IF pattern[i] \in ClassExprs
        THEN PosixClass(CHOOSE n \in ClassNames : pattern[i] = ClassExpr(n))
        ELSE IF IsBracket(pattern[i]) THEN {BracketChar(pattern[i])}
        ELSE {pattern[i]}]

\* C13: every POSIX class expression of the twelve names in the pattern text
\* is replaced before compilation by the equivalent character class: no class
\* expression is left in the compiled text, and the compiled pattern finds a
\* match in a line exactly when the line holds a character of the class at
\* that position.
C13_ClassExpressionsReplaced ==
    (pt_pc = "searched" /\ \E i \in DOMAIN pt_egrep : pt_egrep[i] \in ClassExprs) =>
        /\ \A i \in DOMAIN pt_regex : pt_regex[i] \notin ClassExprs
        /\ pt_found <=> search(PosixItems(pt_egrep), pt_line)

\* the file a writer leaves holds the header row and one row per hit line
Holds(file, hit_lines) ==
    file.written /\ Len(file.header) = 10 /\ Len(file.rows) = Len(hit_lines)

Columns(row) ==
    <<IntText(row.mail_id), IntText(row.hit_count), row.mail_keys.message_id,
      excel_link(row.mail_keys), row.mail_keys.date_str, row.mail_keys.from_addr,
      row.mail_keys.to_addr, row.mail_keys.subj, <<row.parttype>>, row.line>>

\* C16: every row a writer gets has exactly 10 cells in the order mail_id,
\* hit_id, message_id, link, Date, From, To, Subject, Matched Part, Matched
\* Line; every cell is sanitize_cell of its value, so no cell holds CR or LF;
\* both writers get the same header row and the same rows in the same order.
C16_RowsOfTenCleanCells ==
    /\ \A f \in {"csv", "xlsx"} :
          rp_out[f].written =>
              /\ rp_out[f].header = <<"mail_id", "hit_id", "message_id", "link", "Date",
                                       "From", "To", "Subject", "Matched Part",
                                       "Matched Line">>
              /\ Len(rp_out[f].rows) = Len(rp_lines)
              /\ \A i \in DOMAIN rp_out[f].rows :
                    /\ Len(rp_out[f].rows[i]) = 10
                    /\ \A c \in 1..10 :
                          /\ rp_out[f].rows[i][c]
                                = sanitize_cell(Present(Columns(rp_lines[i])[c]))
                          /\ \A j \in DOMAIN rp_out[f].rows[i][c] :
                                rp_out[f].rows[i][c][j] \notin {"\r", "\n"}
    /\ (rp_out["csv"].written /\ rp_out["xlsx"].written) =>
          rp_out["csv"] = rp_out["xlsx"]

\* a hit line of mail 1, whose subject and line hold line breaks, stored in
\* both formats
C16_Witness ==
    /\ rp_out["csv"].written /\ rp_out["xlsx"].written
    /\ \E i \in DOMAIN rp_lines :
          /\ rp_lines[i].mail_id = 1
          /\ rp_out["csv"].rows[i][8] = <<"x", "U+23CE", "y">>
          /\ rp_out["xlsx"].rows[i][10] = <<"x", "U+23CE", "x">>

RECURSIVE Replaced(_, _)
\* the text s with every CR deleted and every LF replaced by the symbol sub
Replaced(s, sub) ==
    IF s = <<>> THEN <<>>
    ELSE (IF s[1] = "\r" THEN <<>> ELSE IF s[1] = "\n" THEN <<sub>> ELSE <<s[1]>>)
         \o Replaced(Tail(s), sub)

\* C17: remove_crlf(s) is s with every CR deleted and every LF replaced by one
\* space, sanitize(s) is s with every CR deleted and every LF replaced by
\* U+23CE with no space inserted; neither result holds CR or LF, no other
\* character is changed, and None (for remove_crlf the empty string too) gives
\* the empty string.
C17_LineBreakPolicies ==
    LET s == IF tx_value.present THEN tx_value.v ELSE <<>>
    IN  /\ tx_header.done =>
              /\ tx_header.val = Replaced(s, " ")
              /\ \A i \in DOMAIN tx_header.val : tx_header.val[i] \notin {"\r", "\n"}
              /\ (~tx_value.present \/ tx_value.v = <<>>) => tx_header.val = <<>>
        /\ tx_cell.done =>
              /\ tx_cell.val = Replaced(s, "U+23CE")
              /\ \A i \in DOMAIN tx_cell.val : tx_cell.val[i] \notin {"\r", "\n"}
              /\ ~tx_value.present => tx_cell.val = <<>>

\* both policies applied to a text with a CR followed by an LF
C17_Witness ==
    /\ tx_value = Present(<<"a", "\r", "\n">>)
    /\ tx_header = [done |-> TRUE, val |-> <<"a", " ">>]
    /\ tx_cell = [done |-> TRUE, val |-> <<"a", "U+23CE">>]

\* the head of the name of a pattern text, step by step as it is described
NameHead(p) ==
    LET u == [i \in DOMAIN p |-> IF NFKC(p[i]) = " " THEN "_" ELSE NFKC(p[i])]
        w == SelectSeq(u, IsReWord)
        keep == SelectSeq([i \in 1..Len(w) |-> i],
                         LAMBDA i : ~(w[i] = "_" /\ i > 1 /\ w[i - 1] = "_"))
        sq == [k \in DOMAIN keep |-> w[keep[k]]]
        nz == {i \in DOMAIN sq : sq[i] # "_"}
        tr == IF nz = {} THEN <<>>
              ELSE SubSeq(sq, CHOOSE i \in nz : \A j \in nz : i <= j,
                              CHOOSE i \in nz : \A j \in nz : j <= i)
        cut == [i \in 1..(IF Len(tr) < 16 THEN Len(tr) ELSE 16) |-> Lower(tr[i])]
    IN  IF cut = <<>> THEN <<"s", "e", "a", "r", "c", "h">> ELSE cut

\* C19: unique_name() returns head, "_" and a timestamp, where head is the
\* pattern NFKC-normalized, spaces replaced by underscores, characters that are
\* not word characters deleted, runs of underscores collapsed, underscores
\* trimmed at both ends, cut to 16 characters and lower-cased, or "search"
\* when that is empty; two calls on one pattern differ only in the timestamp
\* ("foo bar!!" gives the head "foo_bar").
C19_NameIsHeadAndTimestamp ==
    /\ \A i \in DOMAIN pt_names :
          LET name == pt_names[i]
          IN  /\ Len(name) >= 3
              /\ SubSeq(name, 1, Len(name) - 2) = NameHead(pt_egrep)
              /\ Len(name) - 2 <= 16
              /\ name[Len(name) - 1] = "_"
              /\ \E t \in DOMAIN TsSymbols : name[Len(name)] = TsSymbols[t]
              /\ pt_egrep = FooBar =>
                    SubSeq(name, 1, Len(name) - 2) = <<"f", "o", "o", "_", "b", "a", "r">>
    /\ \A i, j \in DOMAIN pt_names :
          /\ Len(pt_names[i]) = Len(pt_names[j])
          /\ \A c \in 1..(Len(pt_names[i]) - 1) : pt_names[i][c] = pt_names[j][c]

\* two calls on "foo bar!!" in different seconds: the names differ, and only
\* in the timestamp
C19_Witness ==
    /\ pt_egrep = FooBar /\ Len(pt_names) = 2
    /\ pt_names[1] = <<"f", "o", "o", "_", "b", "a", "r", "_", TsSymbols[1]>>
    /\ pt_names[2] = <<"f", "o", "o", "_", "b", "a", "r", "_", TsSymbols[2]>>

\* decode falls back for a fragment of the value: decode_header accepts the
\* value and gives a byte fragment with no declared charset, or one that its
\* declared charset does not decode
FallbackTaken(value) ==
    LET dh == decode_header(remove_crlf(value))
    IN  /\ dh.ok
        /\ \E i \in DOMAIN dh.parts :
              /\ dh.parts[i].bytes
              /\ \/ dh.parts[i].cs \in {NoCharset, ""}
                 \/ ~StrictDecode(dh.parts[i].text, dh.parts[i].cs).ok

\* C20: whenever decoding a byte fragment with its declared charset fails, or
\* no charset is declared, and decode falls back to another decoding, a
\* warning is logged for each fallback step taken, and no exception leaves
\* decode.
C20_FallbackIsLogged ==
    dec_pc = "done" =>
        /\ ~dec_result.raised
        /\ FallbackTaken(dec_value) => dec_result.log # <<>>

\* C21: a run started with an output path whose extension is neither .csv
\* nor .xlsx ends with a configuration error surfaced to the caller (it does
\* not end normally), and writes no result file under another name.
C21_UnsupportedTargetIsError ==
    (pc \in {"done", "crashed"} /\ output_path \notin {".csv", ".xlsx"}) =>
        /\ pc # "done"
        /\ WrittenPaths = {}

\* the bytes are a container: a first line of digits, then the payload
IsContainer(raw) ==
    \E n \in 2..Len(raw) : raw[n] = LF /\ \A i \in 1..(n - 1) : raw[i] \in DigitBytes

\* the payload of a container: the bytes after its first line
Payload(raw) ==
    SubSeq(raw, 1 + CHOOSE n \in 2..Len(raw) :
                       raw[n] = LF /\ \A i \in 1..(n - 1) : raw[i] \in DigitBytes,
           Len(raw))

\* C22: loading a message removes at most one framing line: for a container
\* of a line of digits and a payload the bytes handed to the parser are
\* exactly the payload, also when the payload begins with a digit; bytes with
\* no framing line are handed to the parser unchanged.
C22_AtMostOneFramingLine ==
    rd_pc = "loaded" =>
        /\ IsContainer(rd_raw) => rd_data = Payload(rd_raw)
        /\ ~StartsWithDigit(rd_raw) => rd_data = rd_raw

\* C23: in default mode mail_paths returns no .emlx file that lies inside a
\* mailbox directory for which is_excluded is true, for every directory
\* tree, also when the excluded mailbox is nested in one that is not excluded.
C23_NoFileOfExcludedMailbox ==
    (fd_pc = "done" /\ ~fd_only_sent) =>
        \A i \in DOMAIN fd_emlxs :
            \A m \in DOMAIN fd_tree :
                (fd_tree[m].kind = "mbox" /\ IsUnder(fd_tree, fd_emlxs[i], m))
                    => ~is_excluded(MboxOf(fd_tree, m)).result

\* C24: a pattern text that holds no POSIX class name is compiled exactly as
\* written: _egrep_to_python_regex returns it unchanged (a bracket expression
\* with one letter such as "[d]" is not rewritten).
C24_OtherPatternsUnchanged ==
    (pt_pc \in {"compiled", "searched"}
       /\ \A i \in DOMAIN pt_egrep : pt_egrep[i] \notin ClassExprs) =>
        pt_regex = pt_egrep

\* C25: in a report built by appending the hit lines of each mail one after
\* the other in hit order, after sort() the hit lines of one mail are still
\* adjacent and in increasing hit order, also when several mails have the
\* same date or no date.
C25_MailsStayTogether ==
    rp_pc = "sorted" =>
        \A i, j \in DOMAIN rp_lines :
            (i < j /\ rp_lines[i].mail_id = rp_lines[j].mail_id) =>
                /\ rp_lines[i].hit_count < rp_lines[j].hit_count
                /\ \A k \in i..j : rp_lines[k].mail_id = rp_lines[i].mail_id
                /\ j - i = rp_lines[j].hit_count - rp_lines[i].hit_count

\* an undated mail, then a dated mail with two hit lines: the sort moved the
\* two lines in front, together and in hit order
C25_Witness ==
    /\ rp_pc = "sorted" /\ Len(rp_lines) = 3
    /\ rp_before[1].mail_keys.date_dt = NoDate
    /\ rp_lines[1].mail_id = 2 /\ rp_lines[1].hit_count = 1
    /\ rp_lines[2].mail_id = 2 /\ rp_lines[2].hit_count = 2
    /\ rp_lines[3].mail_id = 1
\* a metadata string of the mailbox that is exactly one of the
\* special-use attributes, up to letter case
HasSpecialAttr(mbox, tokens) ==
    /\ mbox.info.exists
    /\ \E i \in DOMAIN _strings_from_plist(mbox.info) :
           norm_keep_punct(_strings_from_plist(mbox.info)[i]) \in tokens

\* C26: the special-attribute tier can decide a result on its own: a mailbox
\* whose metadata holds a special-use attribute ("\Drafts" for is_excluded,
\* "\Sent" for is_sent) is decided by the special-attribute check, because
\* the normalization keeps what the backslash-prefixed tokens need to match.
C26_SpecialTierDecides ==
    cl_pc = "done" =>
        /\ HasSpecialAttr(cl_mbox, SPECIAL_ATTR_TOKENS) => cl_result.tier = "special"
        /\ HasSpecialAttr(cl_mbox, {<<"\\", "s", "e", "n", "t">>})
               => is_sent(cl_mbox).tier = "special"

====
